---- MODULE Spec2Model ----
(***************************************************************************)
(* Verification model of the Stripe sync backend: the OAuth token vault    *)
(* and its two refreshers (getStripeClient, the token sweeper), the OAuth  *)
(* state / callback flow, and the advisory-locked provisioning tick.       *)
(*                                                                         *)
(* Three specifications share one set of variables:                        *)
(*   SpecTok   - one stripe_oauth_connections row, the platform's token    *)
(*               endpoint, two online callers and the sweeper;             *)
(*   SpecOAuth - oauth_states rows and /api/oauth/callback requests;       *)
(*   SpecLock  - pooled sessions, pg advisory locks, ticks and DELETE.     *)
(* Time is in seconds.                                                     *)
(***************************************************************************)
EXTENDS Integers, FiniteSets, Sequences, TLC

VARIABLES
  now,          \* wall clock (Date.now() / NOW()), seconds
  conn,         \* the stripe_oauth_connections row of one (account, livemode)
  platRefresh,  \* number of the only refresh token the platform still accepts
  platSeq,      \* number of the last token pair the platform issued
  pc,           \* position of each refresher
  snap,         \* the row a refresher loaded
  pend,         \* the row a refresher is about to write
  result,       \* what a refresher returned to its caller
  cause,        \* why a refresher failed
  wrote,        \* the execution has written the row
  lostWrite,    \* some rotated pair was lost to a failed database write
  oauthStates,  \* oauth_states rows
  issued,       \* nonces handed out by /api/oauth/install
  cb,           \* /api/oauth/callback requests
  consumes,     \* per nonce: how many consumeOAuthState calls returned its mode
  sessLock,     \* per pooled session: how often it holds the tenant's advisory lock
  sessOwner,    \* per pooled session: the invocation that checked it out
  inv,          \* invocations of tryWithProvisioningLock (ticks, deprovision)
  pdb,          \* the provisioned_databases row of the tenant
  project,      \* the Supabase projects that exist at the control plane
  installed,    \* per project ever created: whether the sync installer was invoked for it
  prv,          \* POST /api/db/provision requests
  secretsEnv,   \* STRIPE_APP_SIGNING_SECRET, split at its commas
  sreq,         \* signed-endpoint requests (status, provision, deprovision)
  statusReq,    \* GET /api/db/status requests
  cr,           \* an encrypt / decrypt round of the envelope crypto
  table,        \* stripe_oauth_connections as the token sweeper sees it
  run,          \* the token sweeper's request handler
  home,         \* the Home view's React state and its requests in flight
  batch,        \* processInBatches: the sweeper's rows and their refreshes in flight
  live,         \* the livemode each request carries, and of the token the installer got
  cron          \* the pg_cron schedule of the token sweeper

tokVars == <<conn, platRefresh, platSeq, pc, snap, pend, result, cause, wrote, lostWrite>>
oauthVars == <<oauthStates, issued, cb, consumes>>
lockVars == <<sessLock, sessOwner, inv, pdb, project, installed, prv>>
sigVars == <<secretsEnv, sreq>>
statusVars == <<statusReq>>
cryptoVars == <<cr>>
sweepVars == <<table, run>>
homeVars == <<home>>
batchVars == <<batch>>
liveVars == <<live>>
cronVars == <<cron>>
vars == <<now, tokVars, oauthVars, lockVars, sigVars, statusVars, cryptoVars, sweepVars,
          homeVars, batchVars, liveVars, cronVars>>

(***************************************************************************)
(* Bounds of the model.                                                    *)
(***************************************************************************)
MaxNowTok == 300
MaxNowOAuth == 1200
MaxNowLock == 1200
MaxIssued == 3

(***************************************************************************)
(* Program constants.                                                      *)
(***************************************************************************)
REFRESH_THRESHOLD_MINUTES == 5
DEFAULT_TOKEN_EXPIRY_SECONDS == 3600
SWEEPER_REFRESH_THRESHOLD_MINUTES == 35
CURRENT_VERSION == 1

ClockSteps == {300}
LongClockSteps == {600}
InitExpiry == {120, DEFAULT_TOKEN_EXPIRY_SECONDS}
ExpiresInChoices == {0, 300}

(***************************************************************************)
(* Plaintext values: a token string, the empty string, and undefined (a    *)
(* field the response does not carry).                                     *)
(***************************************************************************)
AccessTok(n) == [k |-> "at", n |-> n]
RefreshTok(n) == [k |-> "rt", n |-> n]
EmptyStr == [k |-> "empty", n |-> 0]
Undefined == [k |-> "undefined", n |-> 0]

Thrown == [ok |-> FALSE]
Ok(v) == [ok |-> TRUE, val |-> v]

(***************************************************************************)
(* AES-256-GCM envelope {v, iv, data, tag}.  The backend's cipher.update   *)
(* throws a TypeError on undefined; the sweeper's TextEncoder.encode       *)
(* takes undefined as its default "" and encrypts the empty string.        *)
(* decrypt rejects another version and a falsy (empty) data field.         *)
(***************************************************************************)
Envelope(p) == [v |-> CURRENT_VERSION, data |-> p]

encrypt(plaintext) ==
  IF plaintext = Undefined THEN Thrown ELSE Ok(Envelope(plaintext))

sweeperEncrypt(plaintext) ==
  IF plaintext = Undefined THEN Ok(Envelope(EmptyStr)) ELSE Ok(Envelope(plaintext))

decrypt(payload) ==
  IF payload.v # CURRENT_VERSION \/ payload.data = EmptyStr
  THEN Thrown
  ELSE Ok(payload.data)

(***************************************************************************)
(* The platform's token endpoint, as the refresh call sees it.  Refresh    *)
(* tokens are single use: only platRefresh is accepted, and a success      *)
(* rotates it.  Any request may be answered with an error envelope or      *)
(* with the body {} of an HTTP 500.                                        *)
(***************************************************************************)
ErrorEnvelope(code) ==
  [error |-> code, access_token |-> Undefined, refresh_token |-> Undefined, expires_in |-> 0]

EmptyBody ==
  [error |-> "", access_token |-> Undefined, refresh_token |-> Undefined, expires_in |-> 0]

TokenResponse(n, e) ==
  [error |-> "", access_token |-> AccessTok(n), refresh_token |-> RefreshTok(n),
   expires_in |-> e]

PlatformAnswers(refreshToken) ==
  (IF refreshToken = RefreshTok(platRefresh)
   THEN {ErrorEnvelope("server_error")} \cup
        (IF platSeq < MaxIssued
         THEN {TokenResponse(platSeq + 1, e) : e \in ExpiresInChoices}
         ELSE {})
   ELSE {ErrorEnvelope("invalid_grant")})
  \cup {EmptyBody}

Rotates(resp) == resp.refresh_token # Undefined

isRefreshError(response) == response.error # ""

needsRefresh(expiresAt) ==
  expiresAt < now + REFRESH_THRESHOLD_MINUTES * 60

ExpiresInSeconds(resp) ==
  IF resp.expires_in # 0 THEN resp.expires_in ELSE DEFAULT_TOKEN_EXPIRY_SECONDS


(***************************************************************************)
(* stripe_oauth_connections: the row and its single-statement UPDATE.      *)
(***************************************************************************)
Row(accessEnc, expiresAt, refreshEnc, rotatedAt) ==
  [access_token_enc |-> accessEnc, access_token_expires_at |-> expiresAt,
   refresh_token_enc |-> refreshEnc, refresh_token_rotated_at |-> rotatedAt]

NoRow == Row(Envelope(Undefined), 0, Envelope(Undefined), 0)
NoPending == [row |-> NoRow, access |-> Undefined]

\* UPDATE ... SET access_token_enc, access_token_expires_at, refresh_token_enc,
\* refresh_token_rotated_at = NOW(): one statement.
updateConnectionTokens(accessTokenEnc, accessTokenExpiresAt, refreshTokenEnc) ==
  Row(accessTokenEnc, accessTokenExpiresAt, refreshTokenEnc, now)

\* the arguments a refresher has ready for updateConnectionTokens.
Pending(accessEnc, expiresAt, refreshEnc, access) ==
  [row |-> Row(accessEnc, expiresAt, refreshEnc, 0), access |-> access]

WriteOf(p) ==
  updateConnectionTokens(p.row.access_token_enc, p.row.access_token_expires_at,
                         p.row.refresh_token_enc)

Handlers == {"h1", "h2"}
Sweepers == {"sw"}
Refreshers == Handlers \cup Sweepers

Fail(p, why) ==
  /\ pc' = [pc EXCEPT ![p] = "failed"]
  /\ cause' = [cause EXCEPT ![p] = why]

PlatformAfter(resp) ==
  IF Rotates(resp)
  THEN /\ platSeq' = platSeq + 1
       /\ platRefresh' = platSeq + 1
  ELSE UNCHANGED <<platSeq, platRefresh>>

(***************************************************************************)
(* getStripeClient (backend/lib/stripe-client.ts).                         *)
(***************************************************************************)
\* lines 159-173: load the row, decrypt the access token, test the expiry.
GscLoad(h) ==
  /\ pc[h] = "idle"
  /\ LET a == decrypt(conn.access_token_enc) IN
       IF ~a.ok
       THEN Fail(h, "decrypt") /\ UNCHANGED <<snap, result>>
       ELSE IF needsRefresh(conn.access_token_expires_at)
            THEN /\ pc' = [pc EXCEPT ![h] = "loaded"]
                 /\ snap' = [snap EXCEPT ![h] = conn]
                 /\ UNCHANGED <<cause, result>>
            ELSE /\ pc' = [pc EXCEPT ![h] = "done"]
                 /\ result' = [result EXCEPT ![h] = a.val]
                 /\ UNCHANGED <<cause, snap>>
  /\ UNCHANGED <<now, conn, platRefresh, platSeq, pend, wrote, lostWrite, oauthVars, lockVars, sigVars, statusVars, cryptoVars, sweepVars, homeVars, batchVars, liveVars, cronVars>>

\* lines 176-187: what the caller does with the platform's answer.
GscAfterRefresh(h, resp) ==
  IF isRefreshError(resp)
  THEN Fail(h, resp.error) /\ UNCHANGED pend
  ELSE LET ea == encrypt(resp.access_token)
           er == encrypt(resp.refresh_token)
       IN IF ~ea.ok \/ ~er.ok
          THEN Fail(h, "encrypt") /\ UNCHANGED pend
          ELSE /\ pc' = [pc EXCEPT ![h] = "write"]
               /\ pend' = [pend EXCEPT ![h] =
                    Pending(ea.val, now + ExpiresInSeconds(resp), er.val, resp.access_token)]
               /\ UNCHANGED cause

\* lines 176-187: decrypt the refresh token, call the platform, encrypt the pair.
GscRefresh(h) ==
  /\ pc[h] = "loaded"
  /\ LET r == decrypt(snap[h].refresh_token_enc) IN
       IF ~r.ok
       THEN Fail(h, "decrypt") /\ UNCHANGED <<pend, platSeq, platRefresh>>
       ELSE \E resp \in PlatformAnswers(r.val) :
              /\ PlatformAfter(resp)
              /\ GscAfterRefresh(h, resp)
  /\ UNCHANGED <<now, conn, snap, result, wrote, lostWrite, oauthVars, lockVars, sigVars, statusVars, cryptoVars, sweepVars, homeVars, batchVars, liveVars, cronVars>>

\* a faulty variant of GscWrite: the UPDATE is applied and the call then throws.
GscWriteThenFail(h) ==
  /\ pc[h] = "write"
  /\ conn' = WriteOf(pend[h])
  /\ wrote' = [wrote EXCEPT ![h] = TRUE]
  /\ Fail(h, "late")
  /\ UNCHANGED <<now, platRefresh, platSeq, snap, pend, result, lostWrite, oauthVars, lockVars, sigVars, statusVars, cryptoVars, sweepVars, homeVars, batchVars, liveVars, cronVars>>

\* lines 190-215: the UPDATE succeeds and the new access token is returned.
GscWrite(h) ==
  /\ pc[h] = "write"
  /\ conn' = WriteOf(pend[h])
  /\ wrote' = [wrote EXCEPT ![h] = TRUE]
  /\ pc' = [pc EXCEPT ![h] = "done"]
  /\ result' = [result EXCEPT ![h] = pend[h].access]
  /\ UNCHANGED <<now, platRefresh, platSeq, snap, pend, cause, lostWrite, oauthVars, lockVars, sigVars, statusVars, cryptoVars, sweepVars, homeVars, batchVars, liveVars, cronVars>>

\* a faulty variant of GscWriteFail: the rejected UPDATE is ignored and the new
\* access token is returned all the same.
GscWriteFailHandsOut(h) ==
  /\ pc[h] = "write"
  /\ pc' = [pc EXCEPT ![h] = "done"]
  /\ result' = [result EXCEPT ![h] = pend[h].access]
  /\ lostWrite' = TRUE
  /\ UNCHANGED <<now, conn, platRefresh, platSeq, snap, pend, cause, wrote, oauthVars, lockVars, sigVars, statusVars, cryptoVars, sweepVars, homeVars, batchVars, liveVars, cronVars>>

\* line 190: the UPDATE rejects (database error); the exception leaves the function.
GscWriteFail(h) ==
  /\ pc[h] = "write"
  /\ Fail(h, "db")
  /\ lostWrite' = TRUE
  /\ UNCHANGED <<now, conn, platRefresh, platSeq, snap, pend, result, wrote, oauthVars, lockVars, sigVars, statusVars, cryptoVars, sweepVars, homeVars, batchVars, liveVars, cronVars>>

\* the caller has its answer; the handler process serves its next request.
GscReturn(h) ==
  /\ pc[h] \in {"done", "failed"}
  /\ pc' = [pc EXCEPT ![h] = "idle"]
  /\ snap' = [snap EXCEPT ![h] = NoRow]
  /\ pend' = [pend EXCEPT ![h] = NoPending]
  /\ result' = [result EXCEPT ![h] = Undefined]
  /\ cause' = [cause EXCEPT ![h] = ""]
  /\ wrote' = [wrote EXCEPT ![h] = FALSE]
  /\ UNCHANGED <<now, conn, platRefresh, platSeq, lostWrite, oauthVars, lockVars, sigVars, statusVars, cryptoVars, sweepVars, homeVars, batchVars, liveVars, cronVars>>

(***************************************************************************)
(* The token sweeper's refreshConnection (supabase-management deploy.sh).  *)
(***************************************************************************)
\* getExpiringConnections, lines 510-537.
Expiring(row, forceAll) ==
  forceAll \/ row.access_token_expires_at <= now + SWEEPER_REFRESH_THRESHOLD_MINUTES * 60

SwSelect(s) ==
  /\ pc[s] = "idle"
  /\ \E forceAll \in BOOLEAN : Expiring(conn, forceAll)
  /\ pc' = [pc EXCEPT ![s] = "loaded"]
  /\ snap' = [snap EXCEPT ![s] = conn]
  /\ UNCHANGED <<now, conn, platRefresh, platSeq, pend, result, cause, wrote, lostWrite,
                 oauthVars, lockVars, sigVars, statusVars, cryptoVars, sweepVars, homeVars, batchVars, liveVars, cronVars>>

\* lines 594-603: the sweeper's handling of the platform's answer.
SwAfterRefresh(s, resp) ==
  IF isRefreshError(resp)
  THEN Fail(s, resp.error) /\ UNCHANGED pend
  ELSE LET ea == sweeperEncrypt(resp.access_token)
           er == sweeperEncrypt(resp.refresh_token)
       IN IF ~ea.ok \/ ~er.ok
          THEN Fail(s, "encrypt") /\ UNCHANGED pend
          ELSE /\ pc' = [pc EXCEPT ![s] = "write"]
               /\ pend' = [pend EXCEPT ![s] =
                    Pending(ea.val, now + ExpiresInSeconds(resp), er.val, resp.access_token)]
               /\ UNCHANGED cause

SwRefresh(s) ==
  /\ pc[s] = "loaded"
  /\ LET r == decrypt(snap[s].refresh_token_enc) IN
       IF ~r.ok
       THEN Fail(s, "decrypt") /\ UNCHANGED <<pend, platSeq, platRefresh>>
       ELSE \E resp \in PlatformAnswers(r.val) :
              /\ PlatformAfter(resp)
              /\ SwAfterRefresh(s, resp)
  /\ UNCHANGED <<now, conn, snap, result, wrote, lostWrite, oauthVars, lockVars, sigVars, statusVars, cryptoVars, sweepVars, homeVars, batchVars, liveVars, cronVars>>

\* lines 606-623: the update succeeds.
SwWrite(s) ==
  /\ pc[s] = "write"
  /\ conn' = WriteOf(pend[s])
  /\ wrote' = [wrote EXCEPT ![s] = TRUE]
  /\ pc' = [pc EXCEPT ![s] = "done"]
  /\ UNCHANGED <<now, platRefresh, platSeq, snap, pend, result, cause, lostWrite,
                 oauthVars, lockVars, sigVars, statusVars, cryptoVars, sweepVars, homeVars, batchVars, liveVars, cronVars>>

\* lines 559-561, 624-637: the update reports an error; the row counts as failed.
SwWriteFail(s) ==
  /\ pc[s] = "write"
  /\ Fail(s, "db")
  /\ lostWrite' = TRUE
  /\ UNCHANGED <<now, conn, platRefresh, platSeq, snap, pend, result, wrote, oauthVars, lockVars, sigVars, statusVars, cryptoVars, sweepVars, homeVars, batchVars, liveVars, cronVars>>

SwReturn(s) ==
  /\ pc[s] \in {"done", "failed"}
  /\ pc' = [pc EXCEPT ![s] = "idle"]
  /\ snap' = [snap EXCEPT ![s] = NoRow]
  /\ pend' = [pend EXCEPT ![s] = NoPending]
  /\ cause' = [cause EXCEPT ![s] = ""]
  /\ wrote' = [wrote EXCEPT ![s] = FALSE]
  /\ UNCHANGED <<now, conn, platRefresh, platSeq, result, lostWrite, oauthVars, lockVars, sigVars, statusVars, cryptoVars, sweepVars, homeVars, batchVars, liveVars, cronVars>>

\* The process running a refresher is ended (function timeout, crash, deploy)
\* while the refresher waits at one of its awaits: after the row was loaded
\* (stripe-client.ts 159, deploy.sh 592) or after the platform answered and
\* before the UPDATE took effect (stripe-client.ts 182-196, deploy.sh 601-613).
\* Nothing is written and nothing is returned.
Abort(p) ==
  /\ pc[p] \in {"loaded", "write"}
  /\ Fail(p, "aborted")
  /\ UNCHANGED <<now, conn, platRefresh, platSeq, snap, pend, result, wrote, lostWrite, oauthVars, lockVars, sigVars, statusVars, cryptoVars, sweepVars, homeVars, batchVars, liveVars, cronVars>>

\* wall-clock time passes.
Advance(steps, limit) ==
  /\ \E d \in steps : now + d <= limit /\ now' = now + d
  /\ UNCHANGED <<tokVars, oauthVars, lockVars, sigVars, statusVars, cryptoVars, sweepVars, homeVars, batchVars, liveVars, cronVars>>


(***************************************************************************)
(* oauth_states and /api/oauth/callback.                                   *)
(***************************************************************************)
MaxNonce == 1
OAUTH_STATE_TTL_MINUTES == 10

Nonces == 1..MaxNonce
Modes == {"test", "live"}
Callbacks == {"c1", "c2"}

\* the state query parameter: absent, the empty string, or a string.
NoState == [k |-> "absent", n |-> 0]
StateStr(n) == [k |-> "str", n |-> n]
StateParams == {NoState, EmptyStr} \cup {StateStr(n) : n \in Nonces}

sha256(value) == [sha256 |-> value]

NoMode == "null"
NoStateRow == [state_hash |-> sha256(NoState), mode |-> NoMode, expires_at |-> 0]

\* a callback request: its state parameter, the mode consumeOAuthState returned
\* (and whether the row it came from was already expired), the status answered.
NoCallback ==
  [pc |-> "idle", state |-> NoState, mode |-> NoMode, late |-> FALSE, status |-> 0,
   exchanged |-> FALSE, wrote |-> FALSE, tokens |-> 0, expires_in |-> 0]

\* insertOAuthState: INSERT (state_hash, mode, now + ttl).
insertOAuthState(stateHash, mode) ==
  [state_hash |-> stateHash, mode |-> mode, expires_at |-> now + OAUTH_STATE_TTL_MINUTES * 60]

\* /api/oauth/install: a fresh random nonce, stored hashed.
Install ==
  /\ \E n \in Nonces \ issued, mode \in Modes :
       /\ issued' = issued \cup {n}
       /\ oauthStates' = oauthStates \cup {insertOAuthState(sha256(StateStr(n)), mode)}
  /\ UNCHANGED <<now, tokVars, cb, consumes, lockVars, sigVars, statusVars, cryptoVars, sweepVars, homeVars, batchVars, liveVars, cronVars>>

\* DELETE FROM oauth_states WHERE state_hash = $1 AND expires_at > NOW() RETURNING mode
ConsumeMatches(stateHash) ==
  {r \in oauthStates : r.state_hash = stateHash /\ r.expires_at > now}

\* a faulty variant of ConsumeLeaves: a SELECT in place of the DELETE.
ConsumeLeavesRow(stateHash) ==
  oauthStates

ConsumeLeaves(stateHash) ==
  oauthStates \ ConsumeMatches(stateHash)

\* DELETE FROM oauth_states WHERE expires_at < NOW()
cleanupExpiredStates ==
  /\ \E r \in oauthStates : r.expires_at < now
  /\ oauthStates' = {r \in oauthStates : ~(r.expires_at < now)}
  /\ UNCHANGED <<now, tokVars, issued, cb, consumes, lockVars, sigVars, statusVars, cryptoVars, sweepVars, homeVars, batchVars, liveVars, cronVars>>

\* callback.ts line 1362: if (state && typeof state === 'string')
StateBased(state) == state.k = "str"

\* a GET /api/oauth/callback?code=..&state=.. arrives.
CbReceive(c) ==
  /\ cb[c].pc = "idle"
  /\ \E st \in StateParams :
       cb' = [cb EXCEPT ![c] = [NoCallback EXCEPT !.state = st,
                !.pc = IF StateBased(st) THEN "consume" ELSE "exchange"]]
  /\ UNCHANGED <<now, tokVars, oauthStates, issued, consumes, lockVars, sigVars, statusVars, cryptoVars, sweepVars, homeVars, batchVars, liveVars, cronVars>>

\* a faulty variant of AfterConsume: the null mode is not checked.
AfterConsumeProceeds(c, row) ==
  [cb[c] EXCEPT !.pc = "exchange", !.mode = row.mode, !.late = ~(now < row.expires_at)]

\* callback.ts lines 1368-1375: a null mode answers 403 and returns.
AfterConsume(c, row) ==
  IF row.mode = NoMode
  THEN [cb[c] EXCEPT !.pc = "done", !.status = 403]
  ELSE [cb[c] EXCEPT !.pc = "exchange", !.mode = row.mode, !.late = ~(now < row.expires_at)]

\* callback.ts lines 1365-1366: consumeOAuthState(sha256(state)), one statement.
CbConsume(c) ==
  /\ cb[c].pc = "consume"
  /\ LET h == sha256(cb[c].state)
         hit == ConsumeMatches(h)
     IN /\ oauthStates' = ConsumeLeaves(h)
        /\ IF hit = {}
           THEN /\ cb' = [cb EXCEPT ![c] = AfterConsume(c, NoStateRow)]
                /\ UNCHANGED consumes
           ELSE \E r \in hit :
                  /\ cb' = [cb EXCEPT ![c] = AfterConsume(c, r)]
                  /\ consumes' = [consumes EXCEPT ![cb[c].state.n] = @ + 1]
  /\ UNCHANGED <<now, tokVars, issued, lockVars, sigVars, statusVars, cryptoVars, sweepVars, homeVars, batchVars, liveVars, cronVars>>

\* what the token endpoint may answer to an authorization-code exchange.
ExchangeAnswers ==
  {ErrorEnvelope("invalid_grant"), EmptyBody} \cup
  (IF platSeq < MaxIssued THEN {TokenResponse(platSeq + 1, 0)} ELSE {})

\* isOAuthError, callback.ts lines 177-188.
isOAuthError(response) ==
  \/ response.error # ""
  \/ response.access_token = Undefined
  \/ response.refresh_token = Undefined

\* callback.ts lines 1401-1412 and 1427-1438: exchange the code for tokens.
CbExchange(c) ==
  /\ cb[c].pc = "exchange"
  /\ \E resp \in ExchangeAnswers :
       /\ PlatformAfter(resp)
       /\ cb' = [cb EXCEPT ![c] =
            IF isOAuthError(resp)
            THEN [@ EXCEPT !.pc = "done", !.status = 400, !.exchanged = TRUE]
            ELSE [@ EXCEPT !.pc = "upsert", !.exchanged = TRUE,
                           !.tokens = resp.access_token.n, !.expires_in = ExpiresInSeconds(resp)]]
  /\ UNCHANGED <<now, conn, pc, snap, pend, result, cause, wrote, lostWrite,
                 oauthStates, issued, consumes, lockVars, sigVars, statusVars, cryptoVars, sweepVars, homeVars, batchVars, liveVars, cronVars>>

\* callback.ts lines 1443-1465: encrypt the pair, upsertOAuthConnection, answer 200.
CbUpsert(c) ==
  /\ cb[c].pc = "upsert"
  /\ conn' = Row(encrypt(AccessTok(cb[c].tokens)).val, now + cb[c].expires_in,
                 encrypt(RefreshTok(cb[c].tokens)).val, now)
  /\ cb' = [cb EXCEPT ![c] = [@ EXCEPT !.pc = "done", !.status = 200, !.wrote = TRUE]]
  /\ UNCHANGED <<now, platRefresh, platSeq, pc, snap, pend, result, cause, wrote, lostWrite,
                 oauthStates, issued, consumes, lockVars, sigVars, statusVars, cryptoVars, sweepVars, homeVars, batchVars, liveVars, cronVars>>

\* the response is sent; the slot serves the next request.
CbDone(c) ==
  /\ cb[c].pc = "done"
  /\ cb' = [cb EXCEPT ![c] = NoCallback]
  /\ UNCHANGED <<now, tokVars, oauthStates, issued, consumes, lockVars, sigVars, statusVars, cryptoVars, sweepVars, homeVars, batchVars, liveVars, cronVars>>


(***************************************************************************)
(* provisioned_databases, the per-account advisory lock and the tick.      *)
(***************************************************************************)
NSessions == 2
WAIT_DATABASE_READY_TIMEOUT_SECONDS == 600
VERIFY_SYNC_DELAY_SECONDS == 3

Sessions == 1..NSessions
Ticks == {"t1", "t2"}
Deprovisions == {"d1"}
Invocations == Ticks \cup Deprovisions
NoInvocation == "none"

NoPdb ==
  [install_status |-> "not_provisioned", install_step |-> "null", error_message |-> "null",
   updated_at |-> 0, project_ref |-> 0]

\* insertProvisionedDb: a new row is pending / create_project.
insertProvisionedDb(projectRef) ==
  [install_status |-> "pending", install_step |-> "create_project", error_message |-> "null",
   updated_at |-> now, project_ref |-> projectRef]

NoPlan == [op |-> "none", status |-> "null", step |-> "null", message |-> "null"]
Progress(status, step) == [op |-> "progress", status |-> status, step |-> step, message |-> "null"]
FatalError(message) == [op |-> "error", status |-> "error", step |-> "null", message |-> message]
Call(what) == [op |-> "call", status |-> "null", step |-> what, message |-> "null"]

NoInv ==
  [pc |-> "idle", sess |-> 0, locked |-> FALSE, ranFn |-> FALSE, row |-> NoPdb,
   plan |-> NoPlan, calls |-> 0, attempts |-> 0, writes |-> 0, out |-> "none"]

\* a faulty variant of ApplyPlan: an error update that stores no message.
ApplyPlanNoMessage(row, plan) ==
  IF row = NoPdb THEN row
  ELSE IF plan.op = "progress"
       THEN [row EXCEPT !.install_status = plan.status, !.install_step = plan.step,
                        !.error_message = "null", !.updated_at = now]
       ELSE [row EXCEPT !.install_status = "error", !.updated_at = now]

\* updateProgressTx / setFatalErrorTx: UPDATE ... WHERE stripe_account_id = $n.
ApplyPlan(row, plan) ==
  IF row = NoPdb THEN row
  ELSE IF plan.op = "progress"
       THEN [row EXCEPT !.install_status = plan.status, !.install_step = plan.step,
                        !.error_message = "null", !.updated_at = now]
       ELSE [row EXCEPT !.install_status = "error", !.error_message = plan.message,
                        !.updated_at = now]

\* the order of the InstallStep values a row goes through.
StepRank(step) ==
  CASE step = "create_project" -> 0
    [] step = "wait_database_ready" -> 1
    [] step = "apply_schema" -> 2
    [] step = "verify_connection" -> 3
    [] step = "start_sync" -> 4
    [] step = "verify_sync" -> 5
    [] step = "done" -> 6
    [] OTHER -> 0 - 1

\* a faulty variant of TickPlan: error is not terminal, the row is worked on
\* again from the step it failed in.
TickPlanRetriesErrors(row) ==
  LET status == row.install_status
      step == row.install_step
      elapsed == now - row.updated_at
  IN IF status = "ready" THEN NoPlan
     ELSE IF status = "pending" \/ step = "create_project" \/ step = "null"
          THEN Progress("provisioning", "wait_database_ready")
     ELSE IF step = "wait_database_ready" \/ status = "provisioning"
          THEN IF elapsed > WAIT_DATABASE_READY_TIMEOUT_SECONDS
               THEN FatalError("timeout")
               ELSE Call("probe")
     ELSE IF step = "apply_schema" THEN Progress("installing", "verify_connection")
     ELSE IF step = "verify_connection" THEN Progress("syncing", "start_sync")
     ELSE IF step = "start_sync" THEN Call("install")
     ELSE IF step = "verify_sync"
          THEN IF elapsed >= VERIFY_SYNC_DELAY_SECONDS THEN Progress("ready", "done") ELSE NoPlan
     ELSE Progress("provisioning", "wait_database_ready")

\* a faulty variant of TickPlan: verify_sync marks the row ready and leaves
\* its step.
TickPlanReadyKeepsStep(row) ==
  LET status == row.install_status
      step == row.install_step
      elapsed == now - row.updated_at
  IN IF status \in {"ready", "error"} THEN NoPlan
     ELSE IF status = "pending" \/ step = "create_project" \/ step = "null"
          THEN Progress("provisioning", "wait_database_ready")
     ELSE IF step = "wait_database_ready" \/ status = "provisioning"
          THEN IF elapsed > WAIT_DATABASE_READY_TIMEOUT_SECONDS
               THEN FatalError("timeout")
               ELSE Call("probe")
     ELSE IF step = "apply_schema" THEN Progress("installing", "verify_connection")
     ELSE IF step = "verify_connection" THEN Progress("syncing", "start_sync")
     ELSE IF step = "start_sync" THEN Call("install")
     ELSE IF step = "verify_sync"
          THEN IF elapsed >= VERIFY_SYNC_DELAY_SECONDS THEN Progress("ready", "verify_sync") ELSE NoPlan
     ELSE Progress("provisioning", "wait_database_ready")



\* tickProvisioning lines 497-623: what the tick does with the row it read.
\* a faulty variant of TickPlan: the wait for the database never times out.
TickPlanNeverTimesOut(row) ==
  LET status == row.install_status
      step == row.install_step
      elapsed == now - row.updated_at
  IN IF status \in {"ready", "error"} THEN NoPlan
     ELSE IF status = "pending" \/ step = "create_project" \/ step = "null"
          THEN Progress("provisioning", "wait_database_ready")
     ELSE IF step = "wait_database_ready" \/ status = "provisioning"
          THEN Call("probe")
     ELSE IF step = "apply_schema" THEN Progress("installing", "verify_connection")
     ELSE IF step = "verify_connection" THEN Progress("syncing", "start_sync")
     ELSE IF step = "start_sync" THEN Call("install")
     ELSE IF step = "verify_sync"
          THEN IF elapsed >= VERIFY_SYNC_DELAY_SECONDS THEN Progress("ready", "done") ELSE NoPlan
     ELSE Progress("provisioning", "wait_database_ready")

TickPlan(row) ==
  LET status == row.install_status
      step == row.install_step
      elapsed == now - row.updated_at
  IN IF status \in {"ready", "error"} THEN NoPlan
     ELSE IF status = "pending" \/ step = "create_project" \/ step = "null"
          THEN Progress("provisioning", "wait_database_ready")
     ELSE IF step = "wait_database_ready" \/ status = "provisioning"
          THEN IF elapsed > WAIT_DATABASE_READY_TIMEOUT_SECONDS
               THEN FatalError("timeout")
               ELSE Call("probe")
     ELSE IF step = "apply_schema" THEN Progress("installing", "verify_connection")
     ELSE IF step = "verify_connection" THEN Progress("syncing", "start_sync")
     ELSE IF step = "start_sync" THEN Call("install")
     ELSE IF step = "verify_sync"
          THEN IF elapsed >= VERIFY_SYNC_DELAY_SECONDS THEN Progress("ready", "done") ELSE NoPlan
     ELSE Progress("provisioning", "wait_database_ready")

\* provisioning-types.ts line 595: the tick passes maxAttempts: 1.
TICK_MAX_ATTEMPTS == 1

\* installStripeSync(..., {maxAttempts}): client.install is tried until it
\* succeeds or maxAttempts tries have failed, and then it throws.
installStripeSync(maxAttempts) ==
  {[ok |-> TRUE, attempts |-> k] : k \in 1..maxAttempts}
    \cup {[ok |-> FALSE, attempts |-> maxAttempts]}

\* a faulty variant of CallOutcomes: a probe that finds the database not ready
\* rewrites the row as provisioning / wait_database_ready.
CallOutcomesProbeRestartsClock(what) ==
  IF what = "probe"
  THEN {[plan |-> Progress("installing", "apply_schema"), reqs |-> 3, attempts |-> 0],
        [plan |-> Progress("provisioning", "wait_database_ready"), reqs |-> 3, attempts |-> 0]}
       \cup {[plan |-> FatalError("auth"), reqs |-> k, attempts |-> 0] : k \in 1..3}
  ELSE {[plan |-> FatalError("refresh"), reqs |-> 1, attempts |-> 0]}
       \cup {[plan |-> IF r.ok THEN Progress("syncing", "verify_sync") ELSE FatalError("install"),
               reqs |-> f + r.attempts, attempts |-> r.attempts] :
                 f \in 0..1, r \in installStripeSync(TICK_MAX_ATTEMPTS)}

\* a faulty variant of CallOutcomes: a failed installation is only logged and
\* the row is left in start_sync.
CallOutcomesInstallFailureIgnored(what) ==
  IF what = "probe"
  THEN {[plan |-> Progress("installing", "apply_schema"), reqs |-> 3, attempts |-> 0],
        [plan |-> NoPlan, reqs |-> 3, attempts |-> 0]}
       \cup {[plan |-> NoPlan, reqs |-> k, attempts |-> 0] : k \in 1..3}
       \cup {[plan |-> FatalError("auth"), reqs |-> k, attempts |-> 0] : k \in 1..3}
  ELSE {[plan |-> FatalError("refresh"), reqs |-> 1, attempts |-> 0]}
       \cup {[plan |-> IF r.ok THEN Progress("syncing", "verify_sync") ELSE NoPlan,
               reqs |-> f + r.attempts, attempts |-> r.attempts] :
                 f \in 0..1, r \in installStripeSync(TICK_MAX_ATTEMPTS)}

\* checkDatabaseReadyOnce (three control-plane requests, the first rejected one
\* ends it) and the start_sync block (getStripeClient, which asks the platform for
\* tokens when the access token is about to expire, then installStripeSync):
\* the outcomes of the external work, the number of external requests each
\* outcome took and the number of times the installer was tried.
CallOutcomes(what) ==
  IF what = "probe"
  THEN {[plan |-> Progress("installing", "apply_schema"), reqs |-> 3, attempts |-> 0],
        [plan |-> NoPlan, reqs |-> 3, attempts |-> 0]}
       \cup {[plan |-> NoPlan, reqs |-> k, attempts |-> 0] : k \in 1..3}
       \cup {[plan |-> FatalError("auth"), reqs |-> k, attempts |-> 0] : k \in 1..3}
  ELSE {[plan |-> FatalError("refresh"), reqs |-> 1, attempts |-> 0]}
       \cup {[plan |-> IF r.ok THEN Progress("syncing", "verify_sync") ELSE FatalError("install"),
               reqs |-> f + r.attempts, attempts |-> r.attempts] :
                 f \in 0..1, r \in installStripeSync(TICK_MAX_ATTEMPTS)}

\* a faulty variant of LockFree: the lock is granted whoever holds it.
LockAlwaysFree(s) == TRUE

\* pg_try_advisory_lock(hashtext(account)): session scoped, re-entrant in the
\* holding session, refused while another session holds it.
LockFree(s) == \A t \in Sessions \ {s} : sessLock[t] = 0

\* faulty variants of Unlocked: an unlock that releases nothing, and an unlock
\* that releases the lock whichever session holds it.
NotUnlocked(s) == sessLock

UnlockedEverywhere(s) == [t \in Sessions |-> 0]

\* pg_advisory_unlock(hashtext(account)): releases one hold of the calling
\* session; returns false and changes nothing when that session holds none.
Unlocked(s) ==
  [sessLock EXCEPT ![s] = IF @ > 0 THEN @ - 1 ELSE 0]

\* crypto.ts line 252: getPool().connect() checks an idle session out of the pool
\* (the first idle one; it waits while there is none).
Connect(i, s) ==
  /\ sessOwner[s] = NoInvocation
  /\ \A t \in Sessions : t < s => sessOwner[t] # NoInvocation
  /\ sessOwner' = [sessOwner EXCEPT ![s] = i]
  /\ inv' = [inv EXCEPT ![i] = [@ EXCEPT !.pc = "trylock", !.sess = s]]

\* a faulty variant of InvTryLock: fn is called whether or not the lock was
\* granted.
InvTryLockRunsAnyway(i) ==
  /\ inv[i].pc = "trylock"
  /\ LET s == inv[i].sess IN
       IF LockFree(s)
       THEN /\ sessLock' = [sessLock EXCEPT ![s] = @ + 1]
            /\ inv' = [inv EXCEPT ![i] = [@ EXCEPT !.pc = "fn", !.locked = TRUE, !.ranFn = TRUE]]
       ELSE /\ inv' = [inv EXCEPT ![i] = [@ EXCEPT !.pc = "fn", !.locked = FALSE]]
            /\ UNCHANGED sessLock
  /\ UNCHANGED <<now, tokVars, oauthVars, sessOwner, pdb, project, installed, prv, sigVars, statusVars, cryptoVars, sweepVars, homeVars, batchVars, liveVars, cronVars>>

\* crypto.ts lines 254-264: try the lock; call fn only when it was granted.
InvTryLock(i) ==
  /\ inv[i].pc = "trylock"
  /\ LET s == inv[i].sess IN
       IF LockFree(s)
       THEN /\ sessLock' = [sessLock EXCEPT ![s] = @ + 1]
            /\ inv' = [inv EXCEPT ![i] = [@ EXCEPT !.pc = "fn", !.locked = TRUE, !.ranFn = TRUE]]
       ELSE /\ inv' = [inv EXCEPT ![i] = [@ EXCEPT !.pc = "finally", !.locked = FALSE]]
            /\ UNCHANGED sessLock
  /\ UNCHANGED <<now, tokVars, oauthVars, sessOwner, pdb, project, installed, prv, sigVars, statusVars, cryptoVars, sweepVars, homeVars, batchVars, liveVars, cronVars>>

\* crypto.ts lines 266-272: finally { unlock; client.release() }.
InvFinally(i) ==
  /\ inv[i].pc = "finally"
  /\ sessLock' = Unlocked(inv[i].sess)
  /\ sessOwner' = [sessOwner EXCEPT ![inv[i].sess] = NoInvocation]
  /\ inv' = [inv EXCEPT ![i] = [NoInv EXCEPT !.pc = "done", !.locked = inv[i].locked,
               !.ranFn = inv[i].ranFn,
               !.out = IF inv[i].out = "none"
                       THEN (IF inv[i].locked THEN "returned" ELSE "not_acquired")
                       ELSE inv[i].out]]
  /\ UNCHANGED <<now, tokVars, oauthVars, pdb, project, installed, prv, sigVars, statusVars, cryptoVars, sweepVars, homeVars, batchVars, liveVars, cronVars>>

\* the lock query or fn rejects (a query or a call throws): control passes to the
\* finally block.
InvThrow(i) ==
  /\ inv[i].pc \in {"trylock", "fn", "call", "write", "delrow"}
  /\ inv' = [inv EXCEPT ![i] = [@ EXCEPT !.pc = "finally", !.out = "threw"]]
  /\ UNCHANGED <<now, tokVars, oauthVars, sessLock, sessOwner, pdb, project, installed, prv, sigVars, statusVars, cryptoVars, sweepVars, homeVars, batchVars, liveVars, cronVars>>

\* the caller has its answer.
InvDone(i) ==
  /\ inv[i].pc = "done"
  /\ inv' = [inv EXCEPT ![i] = NoInv]
  /\ UNCHANGED <<now, tokVars, oauthVars, sessLock, sessOwner, pdb, project, installed, prv, sigVars, statusVars, cryptoVars, sweepVars, homeVars, batchVars, liveVars, cronVars>>

\* tickProvisioning line 439: a status poll enters tryWithProvisioningLock.
TickConnect(i) ==
  /\ i \in Ticks
  /\ inv[i].pc = "idle"
  /\ \E s \in Sessions : Connect(i, s)
  /\ UNCHANGED <<now, tokVars, oauthVars, sessLock, pdb, project, installed, prv, sigVars, statusVars, cryptoVars, sweepVars, homeVars, batchVars, liveVars, cronVars>>

\* tickProvisioning lines 440-469 and the branch taken on the row read.
TickRead(i) ==
  /\ i \in Ticks
  /\ inv[i].pc = "fn"
  /\ LET plan == IF pdb = NoPdb THEN NoPlan ELSE TickPlan(pdb) IN
       inv' = [inv EXCEPT ![i] = [@ EXCEPT !.row = pdb, !.plan = plan,
                 !.pc = IF plan.op = "none" THEN "finally"
                        ELSE IF plan.op = "call" THEN "call" ELSE "write"]]
  /\ UNCHANGED <<now, tokVars, oauthVars, sessLock, sessOwner, pdb, project, installed, prv, sigVars, statusVars, cryptoVars, sweepVars, homeVars, batchVars, liveVars, cronVars>>

\* the awaited external work of wait_database_ready / start_sync returns.
TickCall(i) ==
  /\ i \in Ticks
  /\ inv[i].pc = "call"
  /\ \E o \in CallOutcomes(inv[i].plan.step) :
       /\ inv' = [inv EXCEPT ![i] = [@ EXCEPT !.plan = o.plan, !.calls = @ + o.reqs,
                    !.attempts = @ + o.attempts,
                    !.pc = IF o.plan.op = "none" THEN "finally" ELSE "write"]]
       /\ installed' = IF o.attempts > 0
                       THEN [installed EXCEPT ![inv[i].row.project_ref] = TRUE]
                       ELSE installed
  /\ UNCHANGED <<now, tokVars, oauthVars, sessLock, sessOwner, pdb, project, prv, sigVars, statusVars, cryptoVars, sweepVars, homeVars, batchVars, liveVars, cronVars>>

\* updateProgressTx / setFatalErrorTx on the locked client.
TickWrite(i) ==
  /\ i \in Ticks
  /\ inv[i].pc = "write"
  /\ pdb' = ApplyPlan(pdb, inv[i].plan)
  /\ inv' = [inv EXCEPT ![i] = [@ EXCEPT !.pc = "finally", !.writes = @ + 1]]
  /\ UNCHANGED <<now, tokVars, oauthVars, sessLock, sessOwner, project, installed, prv, sigVars, statusVars, cryptoVars, sweepVars, homeVars, batchVars, liveVars, cronVars>>

\* handleDelete lines 1499-1516: read the row before taking the lock.
DelRead(i) ==
  /\ i \in Deprovisions
  /\ inv[i].pc = "idle"
  /\ inv' = [inv EXCEPT ![i] =
       IF pdb = NoPdb
       THEN [NoInv EXCEPT !.pc = "done", !.out = "not_provisioned"]
       ELSE [NoInv EXCEPT !.pc = "connect", !.row = [NoPdb EXCEPT !.project_ref = pdb.project_ref]]]
  /\ UNCHANGED <<now, tokVars, oauthVars, sessLock, sessOwner, pdb, project, installed, prv, sigVars, statusVars, cryptoVars, sweepVars, homeVars, batchVars, liveVars, cronVars>>

\* handleDelete line 1519: enter tryWithProvisioningLock.
DelConnect(i) ==
  /\ i \in Deprovisions
  /\ inv[i].pc = "connect"
  /\ \E s \in Sessions : Connect(i, s)
  /\ UNCHANGED <<now, tokVars, oauthVars, sessLock, pdb, project, installed, prv, sigVars, statusVars, cryptoVars, sweepVars, homeVars, batchVars, liveVars, cronVars>>

\* handleDelete line 1521 with deleteSupabaseProject: the control plane answers 2xx.
DelProject(i) ==
  /\ i \in Deprovisions
  /\ inv[i].pc = "fn"
  /\ inv[i].row.project_ref \in project
  /\ project' = project \ {inv[i].row.project_ref}
  /\ inv' = [inv EXCEPT ![i] = [@ EXCEPT !.pc = "delrow", !.calls = @ + 1]]
  /\ UNCHANGED <<now, tokVars, oauthVars, sessLock, sessOwner, pdb, installed, prv, sigVars, statusVars, cryptoVars, sweepVars, homeVars, batchVars, liveVars, cronVars>>

\* a faulty variant of DelProjectFails: the refusal of the control plane is
\* swallowed and the handler goes on to delete the row.
DelProjectFailsIgnored(i) ==
  /\ i \in Deprovisions
  /\ inv[i].pc = "fn"
  /\ inv' = [inv EXCEPT ![i] = [@ EXCEPT !.pc = "delrow", !.calls = @ + 1]]
  /\ UNCHANGED <<now, tokVars, oauthVars, sessLock, sessOwner, pdb, project, installed, prv, sigVars, statusVars, cryptoVars, sweepVars, homeVars, batchVars, liveVars, cronVars>>

\* deleteSupabaseProject throws on any other answer (404 included).
DelProjectFails(i) ==
  /\ i \in Deprovisions
  /\ inv[i].pc = "fn"
  /\ inv' = [inv EXCEPT ![i] = [@ EXCEPT !.pc = "finally", !.out = "threw", !.calls = @ + 1]]
  /\ UNCHANGED <<now, tokVars, oauthVars, sessLock, sessOwner, pdb, project, installed, prv, sigVars, statusVars, cryptoVars, sweepVars, homeVars, batchVars, liveVars, cronVars>>

\* handleDelete line 1524: deleteProvisionedDb.
DelRow(i) ==
  /\ i \in Deprovisions
  /\ inv[i].pc = "delrow"
  /\ pdb' = NoPdb
  /\ inv' = [inv EXCEPT ![i] = [@ EXCEPT !.pc = "finally", !.writes = @ + 1]]
  /\ UNCHANGED <<now, tokVars, oauthVars, sessLock, sessOwner, project, installed, prv, sigVars, statusVars, cryptoVars, sweepVars, homeVars, batchVars, liveVars, cronVars>>

\* handleDelete lines 1509-1572: the HTTP status of the response, by the way the
\* handler left: no row (200), lock refused (409), deleted (200), catch (500).
DeleteStatus(out) ==
  CASE out = "not_provisioned" -> 200
    [] out = "not_acquired" -> 409
    [] out = "returned" -> 200
    [] out = "threw" -> 500
    [] OTHER -> 0

(***************************************************************************)
(* POST /api/db/provision.                                                 *)
(***************************************************************************)
MaxProjects == 2
MaxApiProjects == 3
MaxNowFsm == 1200

Provisions == {"p1", "p2"}

\* DbStatusResponse as the provision handler fills it: status, step, project_ref.
NoBody == [status |-> "null", step |-> "null", project_ref |-> 0]
StatusBody(row) ==
  [status |-> row.install_status, step |-> row.install_step, project_ref |-> row.project_ref]

NoPrv == [pc |-> "idle", ref |-> 0, out |-> 0, body |-> NoBody]

\* the project reference the control plane hands to the next POST /projects.
NextProjectRef == Cardinality(DOMAIN installed) + 1

\* provisioned_databases has one row per account (stripe_account_id is its
\* primary key): an INSERT while a row exists is rejected.
InsertConflicts == pdb # NoPdb

\* a faulty variant of PrvRead: an existing row that is not in error is
\* provisioned again.
PrvReadProvisionsAgain(p) ==
  /\ prv[p].pc = "idle"
  /\ prv' = [prv EXCEPT ![p] =
       IF pdb # NoPdb /\ pdb.install_status = "error" THEN [NoPrv EXCEPT !.pc = "delete"]
       ELSE [NoPrv EXCEPT !.pc = "create"]]
  /\ UNCHANGED <<now, tokVars, oauthVars, sessLock, sessOwner, inv, pdb, project, installed, sigVars, statusVars, cryptoVars, sweepVars, homeVars, batchVars, liveVars, cronVars>>

\* provision handler lines 1379-1402: getProvisionedDb through the pool; an
\* existing row that is not in error is reported with 200 and nothing is done.
PrvRead(p) ==
  /\ prv[p].pc = "idle"
  /\ prv' = [prv EXCEPT ![p] =
       IF pdb = NoPdb THEN [NoPrv EXCEPT !.pc = "create"]
       ELSE IF pdb.install_status = "error" THEN [NoPrv EXCEPT !.pc = "delete"]
       ELSE [NoPrv EXCEPT !.pc = "done", !.out = 200, !.body = StatusBody(pdb)]]
  /\ UNCHANGED <<now, tokVars, oauthVars, sessLock, sessOwner, inv, pdb, project, installed, sigVars, statusVars, cryptoVars, sweepVars, homeVars, batchVars, liveVars, cronVars>>

\* provision handler line 1386: deleteProvisionedDb, a DELETE through the pool.
PrvDelete(p) ==
  /\ prv[p].pc = "delete"
  /\ pdb' = NoPdb
  /\ prv' = [prv EXCEPT ![p] = [@ EXCEPT !.pc = "create"]]
  /\ UNCHANGED <<now, tokVars, oauthVars, sessLock, sessOwner, inv, project, installed, sigVars, statusVars, cryptoVars, sweepVars, homeVars, batchVars, liveVars, cronVars>>

\* startProvisioning lines 344-368: POST /projects creates a project, while
\* fewer than limit projects were ever created.
PrvCreateWithin(p, limit) ==
  /\ prv[p].pc = "create"
  /\ NextProjectRef <= limit
  /\ project' = project \cup {NextProjectRef}
  /\ installed' = [r \in DOMAIN installed \cup {NextProjectRef} |->
                     IF r \in DOMAIN installed THEN installed[r] ELSE FALSE]
  /\ prv' = [prv EXCEPT ![p] = [@ EXCEPT !.pc = "insert", !.ref = NextProjectRef]]
  /\ UNCHANGED <<now, tokVars, oauthVars, sessLock, sessOwner, inv, pdb, sigVars, statusVars, cryptoVars, sweepVars, homeVars, batchVars, liveVars, cronVars>>

PrvCreate(p) == PrvCreateWithin(p, MaxProjects)

\* startProvisioning throws before the insert (configuration, encrypt, or the
\* control plane rejects the request): the handler answers 500.
PrvCreateFails(p) ==
  /\ prv[p].pc = "create"
  /\ prv' = [prv EXCEPT ![p] = [@ EXCEPT !.pc = "done", !.out = 500]]
  /\ UNCHANGED <<now, tokVars, oauthVars, sessLock, sessOwner, inv, pdb, project, installed, sigVars, statusVars, cryptoVars, sweepVars, homeVars, batchVars, liveVars, cronVars>>

\* startProvisioning lines 374-380: insertProvisionedDb, an INSERT through the
\* pool; the handler answers 202, or 500 when the INSERT is rejected.
PrvInsert(p) ==
  /\ prv[p].pc = "insert"
  /\ IF InsertConflicts
     THEN /\ prv' = [prv EXCEPT ![p] = [NoPrv EXCEPT !.pc = "done", !.out = 500]]
          /\ UNCHANGED pdb
     ELSE /\ pdb' = insertProvisionedDb(prv[p].ref)
          /\ prv' = [prv EXCEPT ![p] = [NoPrv EXCEPT !.pc = "done", !.out = 202,
                         !.body = StatusBody(insertProvisionedDb(prv[p].ref))]]
  /\ UNCHANGED <<now, tokVars, oauthVars, sessLock, sessOwner, inv, project, installed, sigVars, statusVars, cryptoVars, sweepVars, homeVars, batchVars, liveVars, cronVars>>

\* the response is sent.
PrvDone(p) ==
  /\ prv[p].pc = "done"
  /\ prv' = [prv EXCEPT ![p] = NoPrv]
  /\ UNCHANGED <<now, tokVars, oauthVars, sessLock, sessOwner, inv, pdb, project, installed, sigVars, statusVars, cryptoVars, sweepVars, homeVars, batchVars, liveVars, cronVars>>

(***************************************************************************)
(* GET /api/db/status: read the row, advance a row in progress by one tick *)
(* under try/catch, read the row again, answer.  A status request owns one *)
(* invocation of tryWithProvisioningLock.                                  *)
(***************************************************************************)
MaxNowStatus == 1200

StatusRequests == {"s1"}
TickOf(h) == "t1"
InProgress == {"pending", "provisioning", "installing", "syncing"}

NoSt == [pc |-> "idle", db |-> NoPdb, before |-> NoPdb, threw |-> FALSE,
         out |-> 0, body |-> NoBody]

\* status handler line 1173: getProvisionedDb; line 1178: tick only a row in
\* progress.
StRead(h) ==
  /\ statusReq[h].pc = "idle"
  /\ inv[TickOf(h)].pc = "idle"
  /\ statusReq' = [statusReq EXCEPT ![h] = [NoSt EXCEPT !.db = pdb, !.before = pdb,
               !.pc = IF pdb # NoPdb /\ pdb.install_status \in InProgress
                      THEN "tick" ELSE "respond"]]
  /\ UNCHANGED <<now, tokVars, oauthVars, lockVars, sigVars, cryptoVars, sweepVars, homeVars, batchVars, liveVars, cronVars>>

\* the first getProvisionedDb rejects: the outer catch answers 500.
StReadFails(h) ==
  /\ statusReq[h].pc = "idle"
  /\ inv[TickOf(h)].pc = "idle"
  /\ statusReq' = [statusReq EXCEPT ![h] = [NoSt EXCEPT !.pc = "done", !.out = 500]]
  /\ UNCHANGED <<now, tokVars, oauthVars, lockVars, sigVars, cryptoVars, sweepVars, homeVars, batchVars, liveVars, cronVars>>

\* status handler line 1180: await tickProvisioning.
StTick(h) ==
  /\ statusReq[h].pc = "tick"
  /\ TickConnect(TickOf(h))

\* a faulty variant of StAfterTick: a tick that threw is answered with 500.
StAfterTickRethrows(h) ==
  /\ statusReq[h].pc = "tick"
  /\ inv[TickOf(h)].pc = "done"
  /\ inv' = [inv EXCEPT ![TickOf(h)] = NoInv]
  /\ \/ /\ inv[TickOf(h)].out = "threw"
        /\ statusReq' = [statusReq EXCEPT ![h] = [@ EXCEPT !.pc = "done", !.threw = TRUE, !.out = 500]]
     \/ /\ inv[TickOf(h)].out # "threw"
        /\ statusReq' = [statusReq EXCEPT ![h] = [@ EXCEPT !.pc = "respond", !.db = pdb]]
  /\ UNCHANGED <<now, tokVars, oauthVars, sessLock, sessOwner, pdb, project, installed, prv, sigVars, cryptoVars, sweepVars, homeVars, batchVars, liveVars, cronVars>>

\* status handler lines 1180-1190: the tick returned and the row is read again,
\* or the tick or the second read threw, the catch block logs it and db keeps the
\* row of the first read.
StAfterTick(h) ==
  /\ statusReq[h].pc = "tick"
  /\ inv[TickOf(h)].pc = "done"
  /\ inv' = [inv EXCEPT ![TickOf(h)] = NoInv]
  /\ \/ /\ inv[TickOf(h)].out = "threw"
        /\ statusReq' = [statusReq EXCEPT ![h] = [@ EXCEPT !.pc = "respond", !.threw = TRUE]]
     \/ /\ inv[TickOf(h)].out # "threw"
        /\ \/ statusReq' = [statusReq EXCEPT ![h] = [@ EXCEPT !.pc = "respond", !.db = pdb]]
           \/ statusReq' = [statusReq EXCEPT ![h] = [@ EXCEPT !.pc = "respond", !.threw = TRUE]]
  /\ UNCHANGED <<now, tokVars, oauthVars, sessLock, sessOwner, pdb, project, installed, prv, sigVars, cryptoVars, sweepVars, homeVars, batchVars, liveVars, cronVars>>

\* status handler lines 1194-1232: the response is built from db and sent with
\* 200 (no row: not_provisioned).
StRespond(h) ==
  /\ statusReq[h].pc = "respond"
  /\ statusReq' = [statusReq EXCEPT ![h] = [@ EXCEPT !.pc = "done", !.out = 200, !.body = StatusBody(statusReq[h].db)]]
  /\ UNCHANGED <<now, tokVars, oauthVars, lockVars, sigVars, cryptoVars, sweepVars, homeVars, batchVars, liveVars, cronVars>>

\* the response is sent.
StDone(h) ==
  /\ statusReq[h].pc = "done"
  /\ statusReq' = [statusReq EXCEPT ![h] = NoSt]
  /\ UNCHANGED <<now, tokVars, oauthVars, lockVars, sigVars, cryptoVars, sweepVars, homeVars, batchVars, liveVars, cronVars>>

(***************************************************************************)
(* The polling effect of the app's Home view: while the row is in          *)
(* progress, setInterval calls fetchStatus every POLL_INTERVAL             *)
(* milliseconds; the next poll starts one interval after the last.         *)
(***************************************************************************)
POLL_INTERVAL == 5000
MaxNowPoll == 700

PollAgain(i) ==
  /\ i \in Ticks
  /\ inv[i].pc = "done"
  /\ pdb.install_status \in InProgress
  /\ now + POLL_INTERVAL \div 1000 <= MaxNowPoll
  /\ now' = now + POLL_INTERVAL \div 1000
  /\ inv' = [inv EXCEPT ![i] = NoInv]
  /\ UNCHANGED <<tokVars, oauthVars, sessLock, sessOwner, pdb, project, installed, prv,
                 sigVars, statusVars, cryptoVars, sweepVars, homeVars, batchVars, liveVars, cronVars>>

(***************************************************************************)
(* Stripe App request signatures and the endpoints that are keyed by an    *)
(* account id.                                                             *)
(***************************************************************************)
MaxNowSig == 600
DEFAULT_TOLERANCE_SECONDS == 300

SigRequests == {"r1"}
Endpoints == {"status", "provision", "deprovision"}
Missing == "missing"
UserIds == {"usr_1"}
AccountIds == {"acct_A", "acct_B"}
SigningKeys == {"k1", "k2"}
SigTimes == {0, 600}
NoHeader == [t |-> 0, v1 |-> [key |-> "none", t |-> 0, payload |-> <<>>]]
NoTenant == "none"

\* the values STRIPE_APP_SIGNING_SECRET takes, split at its commas; the empty
\* sequence stands for an unset or empty variable.
EnvChoices ==
  {<<>>, <<"k1">>, <<"k2">>, <<"k1", "k2">>, <<"k2", "k1">>, <<" k1 ", "">>, <<"", " ">>}

\* String.prototype.trim on the entries above.
trim(s) == IF s = " k1 " THEN "k1" ELSE IF s = " " THEN "" ELSE s

\* buildCanonicalPayload: JSON.stringify({user_id, account_id}), in that order.
buildCanonicalPayload(userId, accountId) ==
  <<"user_id", userId, "account_id", accountId>>

\* HMAC-SHA256 of `<t>.<payload>` under a secret: equal tags only for equal
\* secret, timestamp and payload.
Hmac(secret, t, payload) == [key |-> secret, t |-> t, payload |-> payload]

StripeAppSignatureError(message, statusCode) ==
  [ok |-> FALSE, message |-> message, statusCode |-> statusCode,
   userId |-> Missing, accountId |-> Missing]
Verified(userId, accountId) ==
  [ok |-> TRUE, message |-> "verified", statusCode |-> 200,
   userId |-> userId, accountId |-> accountId]

\* getSigningSecrets: split, trim, drop the empty entries; 500 when the variable
\* is unset or nothing is left.
getSigningSecrets(env) ==
  IF env = <<>> THEN [ok |-> FALSE, val |-> <<>>]
  ELSE LET trimmed == [i \in DOMAIN env |-> trim(env[i])]
           nonEmpty(e) == e # ""
           secrets == SelectSeq(trimmed, nonEmpty)
       IN IF Len(secrets) = 0 THEN [ok |-> FALSE, val |-> <<>>]
          ELSE [ok |-> TRUE, val |-> secrets]

\* stripe.webhooks.signature.verifyHeader(payload, header, secret, tolerance):
\* the header's v1 must be the HMAC of `<t>.<payload>` under the secret and its
\* timestamp must not be older than the tolerance.
verifyHeader(payload, header, secret, tolerance) ==
  /\ header.v1 = Hmac(secret, header.t, payload)
  /\ ~(tolerance > 0 /\ now - header.t > tolerance)

\* a faulty variant of verifyStripeAppSignature: only the first configured
\* secret is tried.
VerifyFirstSecretOnly(req, env) ==
  IF req.header = NoHeader
  THEN StripeAppSignatureError("missing_header", 401)
  ELSE IF req.user_id = Missing \/ req.account_id = Missing
  THEN StripeAppSignatureError("missing_parameter", 400)
  ELSE LET payload == buildCanonicalPayload(req.user_id, req.account_id)
           secrets == getSigningSecrets(env)
       IN IF ~secrets.ok
          THEN StripeAppSignatureError("misconfigured", 500)
          ELSE IF verifyHeader(payload, req.header, secrets.val[1], DEFAULT_TOLERANCE_SECONDS)
               THEN Verified(req.user_id, req.account_id)
               ELSE StripeAppSignatureError("invalid_signature", 401)

\* verifyStripeAppSignature lines 197-256.
verifyStripeAppSignature(req, env) ==
  IF req.header = NoHeader
  THEN StripeAppSignatureError("missing_header", 401)
  ELSE IF req.user_id = Missing \/ req.account_id = Missing
  THEN StripeAppSignatureError("missing_parameter", 400)
  ELSE LET payload == buildCanonicalPayload(req.user_id, req.account_id)
           secrets == getSigningSecrets(env)
       IN IF ~secrets.ok
          THEN StripeAppSignatureError("misconfigured", 500)
          ELSE IF \E i \in DOMAIN secrets.val :
                    verifyHeader(payload, req.header, secrets.val[i], DEFAULT_TOLERANCE_SECONDS)
               THEN Verified(req.user_id, req.account_id)
               ELSE StripeAppSignatureError("invalid_signature", 401)

\* the requests a client can send: any endpoint, with or without a header, the
\* header signed under any key for any identifiers and timestamp, the parameters
\* chosen freely.
Headers ==
  {NoHeader} \cup
  {[t |-> t, v1 |-> Hmac(k, ts, buildCanonicalPayload(u, a))] :
     t \in SigTimes, ts \in SigTimes, k \in SigningKeys, u \in UserIds, a \in AccountIds}

Requests ==
  [endpoint : Endpoints, header : Headers,
   user_id : UserIds \cup {Missing}, account_id : AccountIds \cup {Missing}]

NoRequest ==
  [endpoint |-> "none", header |-> NoHeader, user_id |-> Missing, account_id |-> Missing]

NoSreq ==
  [pc |-> "idle", req |-> NoRequest, env |-> <<>>, at |-> 0, res |-> StripeAppSignatureError("none", 0),
   acted |-> NoTenant, before |-> 0]

\* a request arrives.
SigReceive(r) ==
  /\ sreq[r].pc = "idle"
  /\ \E q \in Requests : sreq' = [sreq EXCEPT ![r] = [NoSreq EXCEPT !.pc = "received", !.req = q]]
  /\ UNCHANGED <<now, tokVars, oauthVars, lockVars, secretsEnv, statusVars, cryptoVars, sweepVars, homeVars, batchVars, liveVars, cronVars>>

\* POST and DELETE /api/db/provision: requireStripeAppSignature, then every
\* lookup and change uses verified.accountId.  GET /api/db/status: account_id
\* is read from the query string and used as it is.
Handle(req, env) ==
  IF req.endpoint = "status"
  THEN IF req.account_id = Missing
       THEN [res |-> StripeAppSignatureError("missing_parameter", 400), acted |-> NoTenant]
       ELSE [res |-> Verified(Missing, req.account_id), acted |-> req.account_id]
  ELSE LET v == verifyStripeAppSignature(req, env)
       IN [res |-> v, acted |-> IF v.ok THEN v.accountId ELSE NoTenant]

\* the handler runs up to the point where it starts to work on a tenant.
SigHandle(r) ==
  /\ sreq[r].pc = "received"
  /\ LET h == Handle(sreq[r].req, secretsEnv) IN
       sreq' = [sreq EXCEPT ![r] = [@ EXCEPT !.pc = "done", !.env = secretsEnv, !.at = now,
                  !.res = h.res, !.acted = h.acted]]
  /\ UNCHANGED <<now, tokVars, oauthVars, lockVars, secretsEnv, statusVars, cryptoVars, sweepVars, homeVars, batchVars, liveVars, cronVars>>

\* the client sends the same request again.
SigResend(r) ==
  /\ sreq[r].pc = "done"
  /\ sreq[r].before = 0
  /\ sreq' = [sreq EXCEPT ![r] = [NoSreq EXCEPT !.pc = "received", !.req = sreq[r].req,
                 !.before = sreq[r].res.statusCode]]
  /\ UNCHANGED <<now, tokVars, oauthVars, lockVars, secretsEnv, statusVars, cryptoVars, sweepVars, homeVars, batchVars, liveVars, cronVars>>

\* the exchange is over.
SigDone(r) ==
  /\ sreq[r].pc = "done"
  /\ sreq' = [sreq EXCEPT ![r] = NoSreq]
  /\ UNCHANGED <<now, tokVars, oauthVars, lockVars, secretsEnv, statusVars, cryptoVars, sweepVars, homeVars, batchVars, liveVars, cronVars>>

\* the deployment's signing secrets are rotated.
RotateSecrets ==
  /\ \E e \in EnvChoices \ {secretsEnv} : secretsEnv' = e
  /\ UNCHANGED <<now, tokVars, oauthVars, lockVars, sreq, statusVars, cryptoVars, sweepVars, homeVars, batchVars, liveVars, cronVars>>

(***************************************************************************)
(* The envelope crypto in full: backend/lib/crypto.ts (node:crypto) and    *)
(* the sweeper's copy in deploy.sh (Web Crypto).  A string is a sequence   *)
(* of UTF-16 code units, of which "D800" is a surrogate without its pair;  *)
(* bytes are numbers; an AES-GCM ciphertext byte is the plaintext byte     *)
(* under the key, the IV and its position, and the tag authenticates the   *)
(* key, the IV and the plaintext bytes.                                    *)
(***************************************************************************)
IV_LENGTH == 12
TAG_LENGTH == 16
MaxPlainLen == 2

Chars == {"a", "D800"}
Plaintexts == UNION {[1..n -> Chars] : n \in 0..MaxPlainLen}
Ivs == {1, 2}
EncryptionKey == "ENCRYPTION_KEY"
Sides == {"backend", "sweeper"}

\* cipher.update(plaintext, 'utf8') / TextEncoder.encode: UTF-8, a lone
\* surrogate becomes U+FFFD (EF BF BD).
RECURSIVE Utf8Encode(_)
Utf8Encode(str) ==
  IF str = <<>> THEN <<>>
  ELSE (IF Head(str) = "D800" THEN <<239, 191, 189>> ELSE <<97>>) \o Utf8Encode(Tail(str))

\* decrypted.toString('utf8') / TextDecoder.decode.
RECURSIVE Utf8Decode(_)
Utf8Decode(bytes) ==
  IF bytes = <<>> THEN <<>>
  ELSE IF Head(bytes) = 97 THEN <<"a">> \o Utf8Decode(Tail(bytes))
  ELSE IF Len(bytes) >= 3 /\ SubSeq(bytes, 1, 3) = <<239, 191, 189>>
       THEN <<"FFFD">> \o Utf8Decode(SubSeq(bytes, 4, Len(bytes)))
  ELSE <<"FFFD">> \o Utf8Decode(Tail(bytes))

\* crypto.randomBytes(IV_LENGTH) / crypto.getRandomValues.
randomBytes(n, id) == [len |-> n, id |-> id]

\* AES-256-GCM: ciphertext of the length of the input, and the tag.
Seal(key, iv, bytes) ==
  [data |-> [i \in 1..Len(bytes) |-> [k |-> key, iv |-> iv.id, i |-> i, b |-> bytes[i]]],
   tag |-> [len |-> TAG_LENGTH, k |-> key, iv |-> iv.id, over |-> bytes]]

OpenedBytes(data) == [i \in 1..Len(data) |-> data[i].b]

\* decipher.final() / crypto.subtle.decrypt accept only what Seal produced for
\* this key and IV.
Opens(key, iv, data, tag) ==
  /\ \A i \in 1..Len(data) : data[i].k = key /\ data[i].iv = iv.id /\ data[i].i = i
  /\ tag.k = key /\ tag.iv = iv.id /\ tag.over = OpenedBytes(data)

\* toString('base64') / btoa and Buffer.from(.., 'base64') / atob.
bytesToBase64(bytes) == [b64 |-> bytes]
base64ToBytes(str) == str.b64

\* JSON.stringify(payload); json is whether JSON.parse accepts the string.
EncryptedPayload(iv, sealed) ==
  [json |-> TRUE, v |-> CURRENT_VERSION, iv |-> bytesToBase64(iv),
   data |-> bytesToBase64(sealed.data), tag |-> bytesToBase64(sealed.tag)]

CrOk(plaintext) == [ok |-> TRUE, val |-> plaintext, error |-> ""]
CrError(message) == [ok |-> FALSE, val |-> <<>>, error |-> message]

\* crypto.ts lines 67-94.
backendEncryptJson(plaintext, iv) ==
  EncryptedPayload(iv, Seal(EncryptionKey, iv, Utf8Encode(plaintext)))

\* deploy.sh lines 356-386: the tag is sliced off the end of the result.
sweeperEncryptJson(plaintext, iv) ==
  EncryptedPayload(iv, Seal(EncryptionKey, iv, Utf8Encode(plaintext)))

\* crypto.ts lines 109-161; a base64 string is falsy when it is empty.
backendDecryptJson(encryptedJson) ==
  IF ~encryptedJson.json
  THEN CrError("Invalid encrypted payload: not valid JSON")
  ELSE IF encryptedJson.v # CURRENT_VERSION
  THEN CrError("Unsupported encryption version: 2")
  ELSE IF \/ encryptedJson.iv.b64.len = 0 \/ Len(encryptedJson.data.b64) = 0
          \/ encryptedJson.tag.b64.len = 0
  THEN CrError("Invalid encrypted payload: missing required fields")
  ELSE LET iv == base64ToBytes(encryptedJson.iv)
           data == base64ToBytes(encryptedJson.data)
           tag == base64ToBytes(encryptedJson.tag)
       IN IF iv.len # IV_LENGTH
          THEN CrError("Invalid encrypted payload: incorrect IV length")
          ELSE IF tag.len # TAG_LENGTH
          THEN CrError("Invalid encrypted payload: incorrect tag length")
          ELSE IF ~Opens(EncryptionKey, iv, data, tag)
          THEN CrError("Decryption failed: invalid ciphertext or authentication tag")
          ELSE CrOk(Utf8Decode(OpenedBytes(data)))

\* deploy.sh lines 388-438: the same checks in the same order.
sweeperDecryptJson(encryptedJson) ==
  IF ~encryptedJson.json
  THEN CrError("Invalid encrypted payload: not valid JSON")
  ELSE IF encryptedJson.v # CURRENT_VERSION
  THEN CrError("Unsupported encryption version: 2")
  ELSE IF \/ encryptedJson.iv.b64.len = 0 \/ Len(encryptedJson.data.b64) = 0
          \/ encryptedJson.tag.b64.len = 0
  THEN CrError("Invalid encrypted payload: missing required fields")
  ELSE LET iv == base64ToBytes(encryptedJson.iv)
           data == base64ToBytes(encryptedJson.data)
           tag == base64ToBytes(encryptedJson.tag)
       IN IF iv.len # IV_LENGTH
          THEN CrError("Invalid encrypted payload: incorrect IV length")
          ELSE IF tag.len # TAG_LENGTH
          THEN CrError("Invalid encrypted payload: incorrect tag length")
          ELSE IF ~Opens(EncryptionKey, iv, data, tag)
          THEN CrError("Decryption failed: invalid ciphertext or authentication tag")
          ELSE CrOk(Utf8Decode(OpenedBytes(data)))

\* what reaches decrypt instead of the payload that encrypt produced.
Tampers ==
  {"not_json", "version", "no_iv", "no_data", "no_tag", "short_iv", "short_tag",
   "flipped_data", "flipped_tag"}

Tampered(payload, how) ==
  CASE how = "not_json" -> [payload EXCEPT !.json = FALSE]
    [] how = "version" -> [payload EXCEPT !.v = 2]
    [] how = "no_iv" -> [payload EXCEPT !.iv.b64.len = 0]
    [] how = "no_data" -> [payload EXCEPT !.data.b64 = <<>>]
    [] how = "no_tag" -> [payload EXCEPT !.tag.b64.len = 0]
    [] how = "short_iv" -> [payload EXCEPT !.iv.b64.len = IV_LENGTH - 1]
    [] how = "short_tag" -> [payload EXCEPT !.tag.b64.len = TAG_LENGTH - 1]
    [] how = "flipped_data" ->
         LET data == payload.data.b64 IN
           [payload EXCEPT !.data.b64 =
              [i \in 1..Len(data) |-> IF i = 1 THEN [data[i] EXCEPT !.b = 255 - @] ELSE data[i]]]
    [] how = "flipped_tag" -> [payload EXCEPT !.tag.b64.iv = 0]
    [] OTHER -> payload

NoPayload == EncryptedPayload(randomBytes(0, 0), Seal("none", randomBytes(0, 0), <<>>))

NoCr == [pc |-> "idle", enc |-> "none", dec |-> "none", plain |-> <<>>,
         payload |-> NoPayload, tamper |-> "none", res |-> CrError("")]

\* encrypt(plaintext) on one side, with a fresh IV.
CrEncrypt ==
  /\ cr.pc = "idle"
  /\ \E side \in Sides, plaintext \in Plaintexts, id \in Ivs :
       cr' = [NoCr EXCEPT !.pc = "encrypted", !.enc = side, !.plain = plaintext,
                !.payload = IF side = "backend"
                            THEN backendEncryptJson(plaintext, randomBytes(IV_LENGTH, id))
                            ELSE sweeperEncryptJson(plaintext, randomBytes(IV_LENGTH, id))]
  /\ UNCHANGED <<now, tokVars, oauthVars, lockVars, sigVars, statusVars, sweepVars, homeVars, batchVars, liveVars, cronVars>>

\* the stored payload is damaged before it is read back.
CrTamper ==
  /\ cr.pc = "encrypted"
  /\ cr.tamper = "none"
  /\ \E how \in Tampers :
       /\ Tampered(cr.payload, how) # cr.payload
       /\ cr' = [cr EXCEPT !.tamper = how, !.payload = Tampered(cr.payload, how)]
  /\ UNCHANGED <<now, tokVars, oauthVars, lockVars, sigVars, statusVars, sweepVars, homeVars, batchVars, liveVars, cronVars>>

\* decrypt(encryptedJson) on one side, with the same key.
CrDecrypt ==
  /\ cr.pc = "encrypted"
  /\ \E side \in Sides :
       cr' = [cr EXCEPT !.pc = "decrypted", !.dec = side,
                !.res = IF side = "backend" THEN backendDecryptJson(cr.payload)
                        ELSE sweeperDecryptJson(cr.payload)]
  /\ UNCHANGED <<now, tokVars, oauthVars, lockVars, sigVars, statusVars, sweepVars, homeVars, batchVars, liveVars, cronVars>>

\* the caller has its answer.
CrDone ==
  /\ cr.pc = "decrypted"
  /\ cr' = NoCr
  /\ UNCHANGED <<now, tokVars, oauthVars, lockVars, sigVars, statusVars, sweepVars, homeVars, batchVars, liveVars, cronVars>>

(***************************************************************************)
(* The token sweeper's request handler (deploy.sh, Deno.serve): select the *)
(* expiring connections, run refreshConnection on each, answer with the    *)
(* summary.  The rows of one request are distinct, so the batches of       *)
(* Promise.all are taken one row after the other, in the order of the      *)
(* query result.                                                           *)
(***************************************************************************)
MaxNowSweep == 300

SweepOrder == <<"c1", "c2">>

SweepAnswers(refreshToken) ==
  {ErrorEnvelope("invalid_grant"), EmptyBody}
  \cup (IF refreshToken.n < MaxIssued
        THEN {TokenResponse(refreshToken.n + 1, e) : e \in ExpiresInChoices}
        ELSE {})

\* getExpiringConnections, lines 510-537: the rows of the query, as read.
RECURSIVE Selected(_, _)
Selected(ids, forceAll) ==
  IF ids = <<>> THEN <<>>
  ELSE (IF Expiring(table[Head(ids)], forceAll)
        THEN <<[id |-> Head(ids), row |-> table[Head(ids)]]>> ELSE <<>>)
       \o Selected(Tail(ids), forceAll)

\* RefreshResult: skipped is set only by the dry run.
RefreshResult(id, success, skipped) == [id |-> id, success |-> success, skipped |-> skipped]

Stats(total, refreshed, failed, skipped) ==
  [total |-> total, refreshed |-> refreshed, failed |-> failed, skipped |-> skipped]

SweepResponse(status, success, summary, stats) ==
  [status |-> status, success |-> success, summary |-> summary, stats |-> stats]

NoRun ==
  [pc |-> "idle", dryRun |-> FALSE, selected |-> <<>>, k |-> 0, pend |-> NoPending,
   results |-> <<>>, calls |-> 0, writes |-> 0,
   res |-> SweepResponse(0, FALSE, FALSE, Stats(0, 0, 0, 0))]

\* refreshConnection returned for row k: on to the next row, or to the summary.
Returned(r, res) ==
  [r EXCEPT !.results = Append(@, res), !.pend = NoPending,
            !.pc = IF r.k = Len(r.selected) THEN "summary" ELSE "row",
            !.k = IF r.k = Len(r.selected) THEN r.k ELSE r.k + 1]

\* handler lines 680-721: parse the body, query the rows; none: the empty summary.
SweepStart ==
  /\ run.pc = "idle"
  /\ \E dryRun, forceAll \in BOOLEAN :
       LET sel == Selected(SweepOrder, forceAll) IN
         run' = IF sel = <<>>
                THEN [NoRun EXCEPT !.pc = "done", !.dryRun = dryRun,
                        !.res = SweepResponse(200, TRUE, TRUE, Stats(0, 0, 0, 0))]
                ELSE [NoRun EXCEPT !.pc = "row", !.dryRun = dryRun, !.selected = sel, !.k = 1]
  /\ UNCHANGED <<now, tokVars, oauthVars, lockVars, sigVars, statusVars, cryptoVars, table, homeVars, batchVars, liveVars, cronVars>>

\* handler lines 760-775: createSupabaseClient or the query throws; 500.
SweepStartFails ==
  /\ run.pc = "idle"
  /\ run' = [NoRun EXCEPT !.pc = "done",
               !.res = SweepResponse(500, FALSE, FALSE, Stats(0, 0, 0, 0))]
  /\ UNCHANGED <<now, tokVars, oauthVars, lockVars, sigVars, statusVars, cryptoVars, table, homeVars, batchVars, liveVars, cronVars>>

\* a faulty variant of SweepDecrypt: the dry run is not looked at.
SweepDecryptIgnoresDryRun ==
  /\ run.pc = "row"
  /\ LET c == run.selected[run.k]
         r == decrypt(c.row.refresh_token_enc)
     IN run' = IF ~r.ok THEN Returned(run, RefreshResult(c.id, FALSE, FALSE))
               ELSE [run EXCEPT !.pc = "call"]
  /\ UNCHANGED <<now, tokVars, oauthVars, lockVars, sigVars, statusVars, cryptoVars, table, homeVars, batchVars, liveVars, cronVars>>

\* refreshConnection lines 577-590: decrypt the refresh token, then the dry run.
SweepDecrypt ==
  /\ run.pc = "row"
  /\ LET c == run.selected[run.k]
         r == decrypt(c.row.refresh_token_enc)
     IN run' = IF ~r.ok THEN Returned(run, RefreshResult(c.id, FALSE, FALSE))
               ELSE IF run.dryRun THEN Returned(run, RefreshResult(c.id, TRUE, TRUE))
               ELSE [run EXCEPT !.pc = "call"]
  /\ UNCHANGED <<now, tokVars, oauthVars, lockVars, sigVars, statusVars, cryptoVars, table, homeVars, batchVars, liveVars, cronVars>>

\* refreshConnection lines 594-603: the platform answers; encrypt the new tokens.
SweepCall ==
  /\ run.pc = "call"
  /\ LET c == run.selected[run.k] IN
       \E resp \in SweepAnswers(decrypt(c.row.refresh_token_enc).val) :
         run' = IF isRefreshError(resp)
                THEN Returned([run EXCEPT !.calls = @ + 1], RefreshResult(c.id, FALSE, FALSE))
                ELSE [run EXCEPT !.calls = @ + 1, !.pc = "write",
                        !.pend = Pending(sweeperEncrypt(resp.access_token).val,
                                         now + ExpiresInSeconds(resp),
                                         sweeperEncrypt(resp.refresh_token).val,
                                         resp.access_token)]
  /\ UNCHANGED <<now, tokVars, oauthVars, lockVars, sigVars, statusVars, cryptoVars, table, homeVars, batchVars, liveVars, cronVars>>

\* refreshConnection lines 606-623: the update succeeds.
SweepWrite ==
  /\ run.pc = "write"
  /\ LET c == run.selected[run.k] IN
       /\ table' = [table EXCEPT ![c.id] = WriteOf(run.pend)]
       /\ run' = Returned([run EXCEPT !.writes = @ + 1], RefreshResult(c.id, TRUE, FALSE))
  /\ UNCHANGED <<now, tokVars, oauthVars, lockVars, sigVars, statusVars, cryptoVars, homeVars, batchVars, liveVars, cronVars>>

\* refreshConnection lines 624-637: the update reports an error.
SweepWriteFail ==
  /\ run.pc = "write"
  /\ run' = Returned(run, RefreshResult(run.selected[run.k].id, FALSE, FALSE))
  /\ UNCHANGED <<now, tokVars, oauthVars, lockVars, sigVars, statusVars, cryptoVars, table, homeVars, batchVars, liveVars, cronVars>>

\* a faulty variant of SweepSummary: refreshed counts every successful result,
\* the skipped ones included.
SweepSummaryCountsSuccess ==
  /\ run.pc = "summary"
  /\ LET n(P(_)) == Cardinality({i \in 1..Len(run.results) : P(run.results[i])})
         refreshed(r) == r.success
         failed(r) == ~r.success
         skipped(r) == r.skipped
         stats == Stats(Len(run.results), n(refreshed), n(failed), n(skipped))
     IN run' = [run EXCEPT !.pc = "done",
                  !.res = SweepResponse(200, stats.failed = 0, TRUE, stats)]
  /\ UNCHANGED <<now, tokVars, oauthVars, lockVars, sigVars, statusVars, cryptoVars, table, homeVars, batchVars, liveVars, cronVars>>

\* handler lines 726-759: the summary of the results and the 200 response.
SweepSummary ==
  /\ run.pc = "summary"
  /\ LET n(P(_)) == Cardinality({i \in 1..Len(run.results) : P(run.results[i])})
         refreshed(r) == r.success /\ ~r.skipped
         failed(r) == ~r.success
         skipped(r) == r.skipped
         stats == Stats(Len(run.results), n(refreshed), n(failed), n(skipped))
     IN run' = [run EXCEPT !.pc = "done",
                  !.res = SweepResponse(200, stats.failed = 0, TRUE, stats)]
  /\ UNCHANGED <<now, tokVars, oauthVars, lockVars, sigVars, statusVars, cryptoVars, table, homeVars, batchVars, liveVars, cronVars>>

\* the response is sent.
SweepDone ==
  /\ run.pc = "done"
  /\ run' = NoRun
  /\ UNCHANGED <<now, tokVars, oauthVars, lockVars, sigVars, statusVars, cryptoVars, table, homeVars, batchVars, liveVars, cronVars>>

(***************************************************************************)
(* Initial state and the specifications.                                   *)
(***************************************************************************)
(***************************************************************************)
(* The Home view of the Stripe App (sync-app/src/views/Home.tsx): its      *)
(* React state, the requests it has in flight and what it renders.         *)
(***************************************************************************)
HomeStatuses == {"not_provisioned", "pending", "ready", "error"}

\* useState initial values: status null, loading true, the rest false / null.
NoHome ==
  [status |-> "null", loading |-> TRUE, provisioning |-> FALSE,
   deprovisioning |-> FALSE, error |-> "null", req |-> {}]

\* What the backend can answer to a request of the view.
HomeAnswers(what) ==
  {[code |-> 200, status |-> s] : s \in HomeStatuses}
    \cup {[code |-> 401, status |-> "null"], [code |-> 500, status |-> "null"]}
    \cup (IF what = "deprovision" THEN {[code |-> 409, status |-> "null"]} ELSE {})

\* The JSX the component returns: the loading render and the main render.
HomeRender(h) ==
  IF h.loading
    THEN [element |-> "ContextView", title |-> "Sync your Stripe data", child |-> "Spinner"]
    ELSE [element |-> "ContextView", title |-> "Sync your Stripe data", child |-> "Box"]

\* fetchStatus is called: on mount, by the polling interval while the status is
\* in progress and no deprovisioning runs, and by the Retry button of the banner.
fetchStatus ==
  /\ "status" \notin home.req
  /\ \/ home.status = "null"
     \/ home.error # "null"
     \/ home.status \in InProgress /\ ~home.deprovisioning
  /\ home' = [home EXCEPT !.req = @ \cup {"status"}]
  /\ UNCHANGED <<now, tokVars, oauthVars, lockVars, sigVars, statusVars, cryptoVars, sweepVars, batchVars, liveVars, cronVars>>

\* The response of GET /api/db/status arrives.
fetchStatusAnswer ==
  /\ "status" \in home.req
  /\ \E a \in HomeAnswers("status") :
       home' =
         IF a.code = 401
           THEN [home EXCEPT !.error = "Please complete OAuth setup first",
                             !.loading = FALSE, !.req = @ \ {"status"}]
         ELSE IF a.code # 200
           THEN [home EXCEPT !.error = "Failed to fetch status",
                             !.loading = FALSE, !.req = @ \ {"status"}]
         ELSE [home EXCEPT !.status = a.status, !.error = "null",
                           !.loading = FALSE, !.req = @ \ {"status"}]
  /\ UNCHANGED <<now, tokVars, oauthVars, lockVars, sigVars, statusVars, cryptoVars, sweepVars, batchVars, liveVars, cronVars>>

\* The Enable button: setProvisioning(true), setError(null), POST /api/db/provision.
handleProvision ==
  /\ ~home.loading
  /\ ~home.provisioning
  /\ home.status \in {"null", "not_provisioned", "error"}
  /\ home' = [home EXCEPT !.provisioning = TRUE, !.error = "null",
                          !.req = @ \cup {"provision"}]
  /\ UNCHANGED <<now, tokVars, oauthVars, lockVars, sigVars, statusVars, cryptoVars, sweepVars, batchVars, liveVars, cronVars>>

handleProvisionAnswer ==
  /\ "provision" \in home.req
  /\ \E a \in HomeAnswers("provision") :
       home' =
         IF a.code = 401
           THEN [home EXCEPT !.error = "Please complete OAuth setup first",
                             !.provisioning = FALSE, !.req = @ \ {"provision"}]
         ELSE IF a.code # 200
           THEN [home EXCEPT !.error = "Failed to start provisioning",
                             !.provisioning = FALSE, !.req = @ \ {"provision"}]
         ELSE [home EXCEPT !.status = a.status,
                           !.provisioning = FALSE, !.req = @ \ {"provision"}]
  /\ UNCHANGED <<now, tokVars, oauthVars, lockVars, sigVars, statusVars, cryptoVars, sweepVars, batchVars, liveVars, cronVars>>

\* The confirmed Disable button: setDeprovisioning(true), setError(null), DELETE.
handleDeprovision ==
  /\ ~home.loading
  /\ ~home.deprovisioning
  /\ home.status \in {"ready", "error"} \cup InProgress
  /\ home' = [home EXCEPT !.deprovisioning = TRUE, !.error = "null",
                          !.req = @ \cup {"deprovision"}]
  /\ UNCHANGED <<now, tokVars, oauthVars, lockVars, sigVars, statusVars, cryptoVars, sweepVars, batchVars, liveVars, cronVars>>

handleDeprovisionAnswer ==
  /\ "deprovision" \in home.req
  /\ \E a \in HomeAnswers("deprovision") :
       home' =
         IF a.code = 401
           THEN [home EXCEPT !.error = "Unauthorized",
                             !.deprovisioning = FALSE, !.req = @ \ {"deprovision"}]
         ELSE IF a.code = 409
           THEN [home EXCEPT !.error = "Another operation is in progress. Please try again.",
                             !.deprovisioning = FALSE, !.req = @ \ {"deprovision"}]
         ELSE IF a.code # 200
           THEN [home EXCEPT !.error = "Failed to disable sync",
                             !.deprovisioning = FALSE, !.req = @ \ {"deprovision"}]
         ELSE [home EXCEPT !.status = a.status,
                           !.deprovisioning = FALSE, !.req = @ \ {"deprovision"}]
  /\ UNCHANGED <<now, tokVars, oauthVars, lockVars, sigVars, statusVars, cryptoVars, sweepVars, batchVars, liveVars, cronVars>>


(***************************************************************************)
(* The token sweeper's processInBatches (deploy.sh 640-657): the selected  *)
(* rows are refreshed in chunks; a chunk's refreshConnection calls run     *)
(* side by side and the loop waits for all of them.  A call is taken here  *)
(* by its result only (success: true or false).                            *)
(***************************************************************************)
CONCURRENCY_LIMIT == 5
MaxSelected == 7

NoBatch == [pc |-> "idle", n |-> 0, i |-> 0, row |-> <<>>, calls |-> <<>>, results |-> <<>>]

Min(a, b) == IF a <= b THEN a ELSE b

\* the rows of the chunk that starts at index i (0-based, as in the code).
Chunk(b) == (b.i + 1) .. Min(b.i + CONCURRENCY_LIMIT, b.n)

InFlight(b) == {k \in 1..b.n : b.row[k] = "inflight"}

\* the handler calls processInBatches with the connections it selected.
processInBatches(n) ==
  /\ batch.pc = "idle"
  /\ batch' = [pc |-> "loop", n |-> n, i |-> 0,
               row |-> [k \in 1..n |-> "queued"],
               calls |-> [k \in 1..n |-> 0],
               results |-> <<>>]
  /\ UNCHANGED <<now, tokVars, oauthVars, lockVars, sigVars, statusVars, cryptoVars, sweepVars, homeVars, liveVars, cronVars>>

\* a faulty variant of BatchMap: the whole rest of the list is started at once.
BatchMapAll ==
  /\ batch.pc = "loop"
  /\ batch.i < batch.n
  /\ batch' = [batch EXCEPT
       !.pc = "await",
       !.row = [k \in 1..batch.n |-> IF k > batch.i THEN "inflight" ELSE batch.row[k]],
       !.calls = [k \in 1..batch.n |-> IF k > batch.i THEN batch.calls[k] + 1 ELSE batch.calls[k]]]
  /\ UNCHANGED <<now, tokVars, oauthVars, lockVars, sigVars, statusVars, cryptoVars, sweepVars, homeVars, liveVars, cronVars>>

\* lines 648-652: slice the next chunk and start refreshConnection for each of
\* its rows (batch.map runs every call up to its first await).
BatchMap ==
  /\ batch.pc = "loop"
  /\ batch.i < batch.n
  /\ batch' = [batch EXCEPT
       !.pc = "await",
       !.row = [k \in 1..batch.n |-> IF k \in Chunk(batch) THEN "inflight" ELSE batch.row[k]],
       !.calls = [k \in 1..batch.n |-> IF k \in Chunk(batch) THEN batch.calls[k] + 1 ELSE batch.calls[k]]]
  /\ UNCHANGED <<now, tokVars, oauthVars, lockVars, sigVars, statusVars, cryptoVars, sweepVars, homeVars, liveVars, cronVars>>

\* refreshConnection lines 575-637: the call for row k resolves, with success
\* true (row written back) or, out of its catch, with success false.
BatchSettle(k, success) ==
  /\ batch.pc = "await"
  /\ k \in InFlight(batch)
  /\ batch' = [batch EXCEPT !.row[k] = IF success THEN "refreshed" ELSE "failed"]
  /\ UNCHANGED <<now, tokVars, oauthVars, lockVars, sigVars, statusVars, cryptoVars, sweepVars, homeVars, liveVars, cronVars>>

\* lines 650-653: Promise.all resolves once every call of the chunk has; the
\* results are appended in the chunk's order and the loop goes on.
BatchCollect ==
  /\ batch.pc = "await"
  /\ InFlight(batch) = {}
  /\ LET last == Min(batch.i + CONCURRENCY_LIMIT, batch.n)
     IN batch' = [batch EXCEPT
          !.pc = "loop",
          !.results = @ \o [j \in 1..(last - batch.i) |->
                              [id |-> batch.i + j, success |-> batch.row[batch.i + j] = "refreshed"]],
          !.i = @ + CONCURRENCY_LIMIT]
  /\ UNCHANGED <<now, tokVars, oauthVars, lockVars, sigVars, statusVars, cryptoVars, sweepVars, homeVars, liveVars, cronVars>>

\* line 656: the loop has run out of rows; results is returned.
BatchReturn ==
  /\ batch.pc = "loop"
  /\ batch.i >= batch.n
  /\ batch' = [batch EXCEPT !.pc = "returned"]
  /\ UNCHANGED <<now, tokVars, oauthVars, lockVars, sigVars, statusVars, cryptoVars, sweepVars, homeVars, liveVars, cronVars>>

\* the handler has its results; the next sweep may start.
BatchDone ==
  /\ batch.pc = "returned"
  /\ batch' = NoBatch
  /\ UNCHANGED <<now, tokVars, oauthVars, lockVars, sigVars, statusVars, cryptoVars, sweepVars, homeVars, liveVars, cronVars>>

(***************************************************************************)
(* The livemode of the requests.  The status handler passes the livemode   *)
(* of its own query string to tickProvisioning (part_004 1137, 1181), and  *)
(* start_sync loads the connection of (account, that livemode); the row    *)
(* of provisioned_databases has no livemode column, startProvisioning      *)
(* ignores its _livemode parameter.  The account has a connection in each  *)
(* mode, so requests of both modes pass verifyOAuthConnection.             *)
(***************************************************************************)
Livemodes == BOOLEAN

\* row: the livemode of the POST /provision that inserted the current row;
\* given: the installer was handed an access token for the current row;
\* token: the livemode of the connection that token belongs to.
NoLive == [row |-> FALSE, given |-> FALSE, token |-> FALSE]

\* TickCall for a tick whose status poll carried the given livemode:
\* start_sync lines 575-596 call getStripeClient({stripeAccountId, livemode}),
\* getOAuthConnection(stripeAccountId, livemode) and hand the decrypted access
\* token of that connection to installStripeSync.
TickCallLive(i, livemode) ==
  /\ i \in Ticks
  /\ inv[i].pc = "call"
  /\ \E o \in CallOutcomes(inv[i].plan.step) :
       /\ inv' = [inv EXCEPT ![i] = [@ EXCEPT !.plan = o.plan, !.calls = @ + o.reqs,
                    !.attempts = @ + o.attempts,
                    !.pc = IF o.plan.op = "none" THEN "finally" ELSE "write"]]
       /\ installed' = IF o.attempts > 0
                       THEN [installed EXCEPT ![inv[i].row.project_ref] = TRUE]
                       ELSE installed
       /\ live' = IF inv[i].plan.step = "install" /\ o.attempts > 0
                  THEN [live EXCEPT !.given = TRUE, !.token = livemode]
                  ELSE live
  /\ UNCHANGED <<now, tokVars, oauthVars, sessLock, sessOwner, pdb, project, prv, sigVars, statusVars, cryptoVars, sweepVars, homeVars, batchVars, cronVars>>

\* PrvInsert for a POST /provision whose body carried the given livemode
\* (part_004 1405: startProvisioning(accountId, livemode)).
PrvInsertLive(p, livemode) ==
  /\ prv[p].pc = "insert"
  /\ IF InsertConflicts
     THEN /\ prv' = [prv EXCEPT ![p] = [NoPrv EXCEPT !.pc = "done", !.out = 500]]
          /\ UNCHANGED <<pdb, live>>
     ELSE /\ pdb' = insertProvisionedDb(prv[p].ref)
          /\ prv' = [prv EXCEPT ![p] = [NoPrv EXCEPT !.pc = "done", !.out = 202,
                         !.body = StatusBody(insertProvisionedDb(prv[p].ref))]]
          /\ live' = [row |-> livemode, given |-> FALSE, token |-> FALSE]
  /\ UNCHANGED <<now, tokVars, oauthVars, sessLock, sessOwner, inv, project, installed, sigVars, statusVars, cryptoVars, sweepVars, homeVars, batchVars, cronVars>>

(***************************************************************************)
(* The token sweeper on its pg_cron schedule (schedule_token_sweeper.sql), *)
(* every refresh succeeding with a token that lives 3600 s.  Token values  *)
(* are left as they are; only access_token_expires_at is followed.  A      *)
(* sweep takes time: the clock may advance between the selection and the   *)
(* write-back of a row.                                                    *)
(***************************************************************************)
SWEEP_PERIOD_MINUTES == 30
MaxNowCron == 3700
MaxSweepSeconds == 2
\* the clock's steps while no sweep runs (seconds).
CronSteps == {300, 301}
CronConnections == {"c1", "c2"}
\* the connection a merchant (re)installs at any time.
CronInstalls == {"c2"}

\* next: when pg_cron fires next; running: a sweep is under way, with the rows
\* still to refresh and the seconds it has taken; swept: a sweep has completed.
NoCron == [next |-> 0, running |-> FALSE, todo |-> {}, lag |-> 0, swept |-> FALSE]

\* pg_cron fires: the handler selects the expiring rows (deploy.sh 510-537).
CronFire ==
  /\ ~cron.running
  /\ now = cron.next
  /\ cron' = [cron EXCEPT !.next = @ + SWEEP_PERIOD_MINUTES * 60,
                          !.running = TRUE,
                          !.todo = {c \in CronConnections : Expiring(table[c], FALSE)},
                          !.lag = 0]
  /\ UNCHANGED <<now, table, tokVars, oauthVars, lockVars, sigVars, statusVars, cryptoVars, run, homeVars, batchVars, liveVars>>

\* refreshConnection succeeds for a selected row (deploy.sh 592-613): the row
\* gets the expiry now + DEFAULT_TOKEN_EXPIRY_SECONDS.
CronRefresh(c) ==
  /\ cron.running
  /\ c \in cron.todo
  /\ table' = [table EXCEPT ![c].access_token_expires_at = now + DEFAULT_TOKEN_EXPIRY_SECONDS]
  /\ cron' = [cron EXCEPT !.todo = @ \ {c}]
  /\ UNCHANGED <<now, tokVars, oauthVars, lockVars, sigVars, statusVars, cryptoVars, run, homeVars, batchVars, liveVars>>

\* the handler has processed every selected row and answers.
CronFinish ==
  /\ cron.running
  /\ cron.todo = {}
  /\ cron' = [cron EXCEPT !.running = FALSE, !.swept = TRUE]
  /\ UNCHANGED <<now, table, tokVars, oauthVars, lockVars, sigVars, statusVars, cryptoVars, run, homeVars, batchVars, liveVars>>

\* a second passes while the sweep is under way.
CronLag ==
  /\ cron.running
  /\ cron.lag < MaxSweepSeconds
  /\ now + 1 <= MaxNowCron
  /\ now' = now + 1
  /\ cron' = [cron EXCEPT !.lag = @ + 1]
  /\ UNCHANGED <<table, tokVars, oauthVars, lockVars, sigVars, statusVars, cryptoVars, run, homeVars, batchVars, liveVars>>

\* time passes between sweeps, never past the next firing of the schedule.
CronWait(d) ==
  /\ ~cron.running
  /\ now + d <= cron.next
  /\ now + d <= MaxNowCron
  /\ now' = now + d
  /\ UNCHANGED <<table, cron, tokVars, oauthVars, lockVars, sigVars, statusVars, cryptoVars, run, homeVars, batchVars, liveVars>>

\* time passes until the schedule fires next.
CronWaitDue ==
  /\ ~cron.running
  /\ now < cron.next
  /\ cron.next <= MaxNowCron
  /\ now' = cron.next
  /\ UNCHANGED <<table, cron, tokVars, oauthVars, lockVars, sigVars, statusVars, cryptoVars, run, homeVars, batchVars, liveVars>>

\* the OAuth callback stores a fresh pair for a connection (callback.ts
\* 618-626): the access token expires expires_in seconds from now.
CronInstall(c) ==
  /\ ~cron.running
  /\ table' = [table EXCEPT ![c].access_token_expires_at = now + DEFAULT_TOKEN_EXPIRY_SECONDS]
  /\ UNCHANGED <<now, cron, tokVars, oauthVars, lockVars, sigVars, statusVars, cryptoVars, run, homeVars, batchVars, liveVars>>

Init ==
  /\ now = 0
  /\ \E e \in InitExpiry :
       conn = Row(Envelope(AccessTok(1)), e, Envelope(RefreshTok(1)), 0)
  /\ platRefresh = 1
  /\ platSeq = 1
  /\ pc = [p \in Refreshers |-> "idle"]
  /\ snap = [p \in Refreshers |-> NoRow]
  /\ pend = [p \in Refreshers |-> NoPending]
  /\ result = [p \in Refreshers |-> Undefined]
  /\ cause = [p \in Refreshers |-> ""]
  /\ wrote = [p \in Refreshers |-> FALSE]
  /\ lostWrite = FALSE
  /\ oauthStates = {}
  /\ issued = {}
  /\ cb = [c \in Callbacks |-> NoCallback]
  /\ consumes = [n \in Nonces |-> 0]
  /\ sessLock = [s \in Sessions |-> 0]
  /\ sessOwner = [s \in Sessions |-> NoInvocation]
  /\ inv = [i \in Invocations |-> NoInv]
  /\ pdb = insertProvisionedDb(1)
  /\ project = {1}
  /\ installed = [r \in {1} |-> FALSE]
  /\ prv = [p \in Provisions |-> NoPrv]
  /\ secretsEnv = <<"k1">>
  /\ sreq = [r \in SigRequests |-> NoSreq]
  /\ statusReq = [h \in StatusRequests |-> NoSt]
  /\ cr = NoCr
  /\ table = [c \in {"c1", "c2"} |->
                Row(Envelope(AccessTok(1)),
                    IF c = "c1" THEN 120 ELSE DEFAULT_TOKEN_EXPIRY_SECONDS,
                    Envelope(RefreshTok(1)), 0)]
  /\ run = NoRun
  /\ home = NoHome
  /\ batch = NoBatch
  /\ live = NoLive
  /\ cron = NoCron

NextTok ==
  \/ \E h \in Handlers : GscLoad(h)
  \/ \E h \in Handlers : GscRefresh(h)
  \/ \E h \in Handlers : GscWrite(h)
  \/ \E h \in Handlers : GscWriteFail(h)
  \/ \E h \in Handlers : GscReturn(h)
  \/ \E s \in Sweepers : SwSelect(s)
  \/ \E s \in Sweepers : SwRefresh(s)
  \/ \E s \in Sweepers : SwWrite(s)
  \/ \E s \in Sweepers : SwWriteFail(s)
  \/ \E s \in Sweepers : SwReturn(s)
  \/ Advance(ClockSteps, MaxNowTok)

\* the refreshers, each of which may be ended at a suspension point.
NextAbort ==
  \/ NextTok
  \/ \E p \in Refreshers : Abort(p)

NextOAuth ==
  \/ Install
  \/ cleanupExpiredStates
  \/ \E c \in Callbacks : CbReceive(c)
  \/ \E c \in Callbacks : CbConsume(c)
  \/ \E c \in Callbacks : CbExchange(c)
  \/ \E c \in Callbacks : CbUpsert(c)
  \/ \E c \in Callbacks : CbDone(c)
  \/ Advance(LongClockSteps, MaxNowOAuth)

NextLock ==
  \/ \E i \in Invocations : TickConnect(i)
  \/ \E i \in Invocations : DelRead(i)
  \/ \E i \in Invocations : DelConnect(i)
  \/ \E i \in Invocations : InvTryLock(i)
  \/ \E i \in Invocations : TickRead(i)
  \/ \E i \in Invocations : TickCall(i)
  \/ \E i \in Invocations : TickWrite(i)
  \/ \E i \in Invocations : DelProject(i)
  \/ \E i \in Invocations : DelProjectFails(i)
  \/ \E i \in Invocations : DelRow(i)
  \/ \E i \in Invocations : InvThrow(i)
  \/ \E i \in Invocations : InvFinally(i)
  \/ \E i \in Invocations : InvDone(i)
  \/ Advance(LongClockSteps, MaxNowLock)

\* the provisioning state machine under status polls and provision requests.
FsmTicks == {"t1"}

NextFsm ==
  \/ \E i \in FsmTicks : TickConnect(i)
  \/ \E i \in FsmTicks : InvTryLock(i)
  \/ \E i \in FsmTicks : TickRead(i)
  \/ \E i \in FsmTicks : TickCall(i)
  \/ \E i \in FsmTicks : TickWrite(i)
  \/ \E i \in FsmTicks : InvFinally(i)
  \/ \E i \in FsmTicks : InvDone(i)
  \/ \E p \in Provisions : PrvRead(p)
  \/ \E p \in Provisions : PrvDelete(p)
  \/ \E p \in Provisions : PrvCreate(p)
  \/ \E p \in Provisions : PrvCreateFails(p)
  \/ \E p \in Provisions : PrvInsert(p)
  \/ \E p \in Provisions : PrvDone(p)
  \/ Advance(LongClockSteps, MaxNowFsm)

NextSig ==
  \/ \E r \in SigRequests : SigReceive(r)
  \/ \E r \in SigRequests : SigHandle(r)
  \/ \E r \in SigRequests : SigResend(r)
  \/ \E r \in SigRequests : SigDone(r)
  \/ RotateSecrets
  \/ Advance(ClockSteps, MaxNowSig)

\* status polls: the request s1 with its tick t1, a second poll's tick t2, and
\* rejected queries.
NextStatus ==
  \/ \E h \in StatusRequests : StRead(h)
  \/ \E h \in StatusRequests : StReadFails(h)
  \/ \E h \in StatusRequests : StTick(h)
  \/ \E h \in StatusRequests : StAfterTick(h)
  \/ \E h \in StatusRequests : StRespond(h)
  \/ \E h \in StatusRequests : StDone(h)
  \/ TickConnect("t2")
  \/ InvDone("t2")
  \/ \E i \in Ticks : InvTryLock(i)
  \/ \E i \in Ticks : TickRead(i)
  \/ \E i \in Ticks : TickCall(i)
  \/ \E i \in Ticks : TickWrite(i)
  \/ \E i \in Ticks : InvThrow(i)
  \/ \E i \in Ticks : InvFinally(i)
  \/ Advance(LongClockSteps, MaxNowStatus)

NextCrypto ==
  \/ CrEncrypt
  \/ CrTamper
  \/ CrDecrypt
  \/ CrDone

NextSweep ==
  \/ SweepStart
  \/ SweepStartFails
  \/ SweepDecrypt
  \/ SweepCall
  \/ SweepWrite
  \/ SweepWriteFail
  \/ SweepSummary
  \/ SweepDone
  \/ Advance(ClockSteps, MaxNowSweep)

\* the polls of one open Home view against the row that startProvisioning left.
NextPoll ==
  \/ \E i \in FsmTicks : TickConnect(i)
  \/ \E i \in FsmTicks : InvTryLock(i)
  \/ \E i \in FsmTicks : TickRead(i)
  \/ \E i \in FsmTicks : TickCall(i)
  \/ \E i \in FsmTicks : TickWrite(i)
  \/ \E i \in FsmTicks : InvFinally(i)
  \/ \E i \in FsmTicks : PollAgain(i)

\* POST /provision requests racing each other after a DELETE /provision has
\* removed the tenant's row and project (no row is in error here, so the retry
\* branch of the handler is never entered).
ApiDeprovisions == {"d1"}

NextRace ==
  \/ \E i \in ApiDeprovisions : DelRead(i)
  \/ \E i \in ApiDeprovisions : DelConnect(i)
  \/ \E i \in ApiDeprovisions : InvTryLock(i)
  \/ \E i \in ApiDeprovisions : DelProject(i)
  \/ \E i \in ApiDeprovisions : DelProjectFails(i)
  \/ \E i \in ApiDeprovisions : DelRow(i)
  \/ \E i \in ApiDeprovisions : InvFinally(i)
  \/ \E i \in ApiDeprovisions : InvDone(i)
  \/ \E p \in Provisions : PrvRead(p)
  \/ \E p \in Provisions : PrvCreateWithin(p, MaxApiProjects)
  \/ \E p \in Provisions : PrvCreateFails(p)
  \/ \E p \in Provisions : PrvInsert(p)
  \/ \E p \in Provisions : PrvDone(p)

\* a DELETE /provision request next to the status polls' tick and a POST
\* /provision request that retries a row in error.
RetryProvisions == {"p1"}

NextRetry ==
  \/ \E i \in FsmTicks : TickConnect(i)
  \/ \E i \in ApiDeprovisions : DelRead(i)
  \/ \E i \in ApiDeprovisions : DelConnect(i)
  \/ \E i \in FsmTicks \cup ApiDeprovisions : InvTryLock(i)
  \/ \E i \in FsmTicks : TickRead(i)
  \/ \E i \in FsmTicks : TickCall(i)
  \/ \E i \in FsmTicks : TickWrite(i)
  \/ \E i \in ApiDeprovisions : DelProject(i)
  \/ \E i \in ApiDeprovisions : DelProjectFails(i)
  \/ \E i \in ApiDeprovisions : DelRow(i)
  \/ \E i \in FsmTicks \cup ApiDeprovisions : InvFinally(i)
  \/ \E i \in FsmTicks \cup ApiDeprovisions : InvDone(i)
  \/ \E p \in RetryProvisions : PrvRead(p)
  \/ \E p \in RetryProvisions : PrvDelete(p)
  \/ \E p \in RetryProvisions : PrvCreate(p)
  \/ \E p \in RetryProvisions : PrvCreateFails(p)
  \/ \E p \in RetryProvisions : PrvInsert(p)
  \/ \E p \in RetryProvisions : PrvDone(p)

\* one run of processInBatches after the other, over any number of selected rows.
NextBatch ==
  \/ \E n \in 0..MaxSelected : processInBatches(n)
  \/ BatchMap
  \/ \E k \in 1..MaxSelected, success \in BOOLEAN : BatchSettle(k, success)
  \/ BatchCollect
  \/ BatchReturn
  \/ BatchDone

\* status polls and provision requests of either livemode on one account.
NextLive ==
  \/ \E i \in FsmTicks : TickConnect(i)
  \/ \E i \in FsmTicks : InvTryLock(i)
  \/ \E i \in FsmTicks : TickRead(i)
  \/ \E i \in FsmTicks, livemode \in Livemodes : TickCallLive(i, livemode)
  \/ \E i \in FsmTicks : TickWrite(i)
  \/ \E i \in FsmTicks : InvFinally(i)
  \/ \E i \in FsmTicks : InvDone(i)
  \/ \E p \in RetryProvisions : PrvRead(p)
  \/ \E p \in RetryProvisions : PrvDelete(p)
  \/ \E p \in RetryProvisions : PrvCreate(p)
  \/ \E p \in RetryProvisions : PrvCreateFails(p)
  \/ \E p \in RetryProvisions, livemode \in Livemodes : PrvInsertLive(p, livemode)
  \/ \E p \in RetryProvisions : PrvDone(p)

\* the scheduled sweeps of two connections, one of them installed at any time.
NextCron ==
  \/ CronFire
  \/ \E c \in CronConnections : CronRefresh(c)
  \/ CronFinish
  \/ CronLag
  \/ \E d \in CronSteps : CronWait(d)
  \/ CronWaitDue
  \/ \E c \in CronInstalls : CronInstall(c)

\* the status polls' tick next to two POST /provision requests that may both
\* retry, so that the row can be replaced twice.
NextReplace ==
  \/ \E i \in FsmTicks : TickConnect(i)
  \/ \E i \in FsmTicks : InvTryLock(i)
  \/ \E i \in FsmTicks : TickRead(i)
  \/ \E i \in FsmTicks : TickCall(i)
  \/ \E i \in FsmTicks : TickWrite(i)
  \/ \E i \in FsmTicks : InvFinally(i)
  \/ \E i \in FsmTicks : InvDone(i)
  \/ \E p \in Provisions : PrvRead(p)
  \/ \E p \in Provisions : PrvDelete(p)
  \/ \E p \in Provisions : PrvCreateWithin(p, MaxApiProjects)
  \/ \E p \in Provisions : PrvCreateFails(p)
  \/ \E p \in Provisions : PrvInsert(p)
  \/ \E p \in Provisions : PrvDone(p)

\* one open Home view and the answers of the backend to its requests.
NextHome ==
  \/ fetchStatus
  \/ fetchStatusAnswer
  \/ handleProvision
  \/ handleProvisionAnswer
  \/ handleDeprovision
  \/ handleDeprovisionAnswer

SpecTok == Init /\ [][NextTok]_vars
SpecOAuth == Init /\ [][NextOAuth]_vars
SpecLock == Init /\ [][NextLock]_vars
SpecFsm == Init /\ [][NextFsm]_vars
SpecSig == Init /\ [][NextSig]_vars
SpecStatus == Init /\ [][NextStatus]_vars
SpecCrypto == Init /\ [][NextCrypto]_vars
SpecSweep == Init /\ [][NextSweep]_vars
\* polls keep occurring, each poll runs to its end, and time advances from poll to poll.
SpecPoll == Init /\ [][NextPoll]_vars /\ WF_vars(NextPoll)
SpecAbort == Init /\ [][NextAbort]_vars
SpecBatch == Init /\ [][NextBatch]_vars
SpecLive == Init /\ [][NextLive]_vars
SpecCron == Init /\ [][NextCron]_vars
SpecReplace == Init /\ [][NextReplace]_vars
SpecHome == Init /\ [][NextHome]_vars
SpecRace == Init /\ [][NextRace]_vars
SpecRetry == Init /\ [][NextRetry]_vars

Next == NextTok \/ NextOAuth \/ NextLock \/ NextFsm \/ NextSig \/ NextStatus \/ NextCrypto \/ NextSweep \/ NextPoll
          \/ NextHome \/ NextReplace \/ NextCron \/ NextLive \/ NextBatch \/ NextAbort \/ NextRace \/ NextRetry
Spec == Init /\ [][Next]_vars

(***************************************************************************)
(* Properties of the token vault (SpecTok).                                *)
(***************************************************************************)

\* C1: whenever no refresh of the connection is in flight (and no rotated pair
\* was lost to a rejected UPDATE), the refresh token stored in the row is the
\* one the platform issued last, the only one it still accepts.
C1_StoredRefreshTokenIsLatest ==
  ((\A p \in Refreshers : pc[p] \notin {"loaded", "write"}) /\ ~lostWrite)
    => decrypt(conn.refresh_token_enc) = Ok(RefreshTok(platRefresh))

\* C2: a getStripeClient call that refreshed hands out the new access token only
\* after its updateConnectionTokens has completed; before the write, and after
\* a failed write, the caller holds no token.
C2_WriteBeforeHandOut ==
  \A h \in Handlers :
    /\ (result[h] # Undefined /\ pend[h] # NoPending)
         => (wrote[h] /\ pc[h] = "done" /\ result[h] = pend[h].access)
    /\ pc[h] \in {"write", "failed"} => result[h] = Undefined

\* C2 witness: one caller was handed the new access token after its write while
\* another caller's write was rejected and it was handed nothing.
C2_Witness ==
  \E h, g \in Handlers :
    /\ pc[h] = "done" /\ wrote[h] /\ result[h] # Undefined /\ result[h] = pend[h].access
    /\ pc[g] = "failed" /\ cause[g] = "db" /\ result[g] = Undefined

\* C3: a getStripeClient call that fails has not modified the connection row:
\* no failed execution has written, and the step in which a call fails leaves
\* the row (both ciphertexts, expiry, rotated_at) as it was.
C3_FailedRefreshLeavesRow ==
  /\ [](\A h \in Handlers : pc[h] = "failed" => ~wrote[h])
  /\ [][\A h \in Handlers : (pc[h] # "failed" /\ pc'[h] = "failed") => conn' = conn]_vars

\* C3 witness: the platform answered a refresh with a body without tokens, the
\* call failed while encrypting, and the row is the row the call loaded.
C3_Witness ==
  \E h \in Handlers :
    /\ pc[h] = "failed" /\ cause[h] = "encrypt" /\ ~wrote[h]
    /\ snap[h] # NoRow /\ conn = snap[h]

\* C4: a refresh response without an error envelope but without tokens never
\* leads to a write: no refresher prepares an update from it, and the stored
\* refresh ciphertext is never the envelope of an absent token.
C4_TokenlessResponseIsFailure ==
  /\ \A p \in Refreshers : pend[p] # NoPending => pend[p].access # Undefined
  /\ conn.refresh_token_enc.data # EmptyStr

\* C5: of two getStripeClient calls that loaded the same row inside the refresh
\* window, the one that misses the refresh does not fail because the other one
\* rotated the refresh token.
C5_ConcurrentCallersBothServed ==
  \A h, g \in Handlers :
    ~(/\ h # g
      /\ snap[h] # NoRow /\ snap[h] = snap[g]
      /\ pend[g] # NoPending /\ pc[g] \in {"write", "done"}
      /\ pc[h] = "failed" /\ cause[h] = "invalid_grant")

(***************************************************************************)
(* Properties of the OAuth state (SpecOAuth).                              *)
(***************************************************************************)

\* C6: a state is consumed at most once: per state at most one
\* consumeOAuthState call returned a mode, every other callback carrying it got
\* null, and no returned row had expires_at <= now.
C6_StateConsumedAtMostOnce ==
  /\ \A n \in Nonces : consumes[n] <= 1
  /\ \A n \in Nonces :
       Cardinality({c \in Callbacks : cb[c].state = StateStr(n) /\ cb[c].mode # NoMode})
         <= consumes[n]
  /\ \A c \in Callbacks : ~cb[c].late

\* C6 witness: two callbacks carried the same state; one got its mode, the
\* other got null.
C6_Witness ==
  \E c, d \in Callbacks :
    /\ c # d /\ StateBased(cb[c].state) /\ cb[c].state = cb[d].state
    /\ cb[c].mode # NoMode
    /\ cb[d].pc = "done" /\ cb[d].mode = NoMode
    /\ consumes[cb[c].state.n] = 1

C8_OneFnAtATime ==
  /\ Cardinality({i \in Invocations : inv[i].pc \in {"fn", "call", "write", "delrow"}}) <= 1
  /\ \A i \in Ticks : inv[i].pc \in {"call", "write"} => pdb = inv[i].row

\* C8 witness: a tick is about to write its transition while another
\* invocation is trying the lock.
C8_Witness ==
  \E i \in Ticks, j \in Invocations :
    /\ i # j
    /\ inv[i].pc = "write" /\ inv[i].plan.op = "progress"
    /\ inv[j].pc = "trylock"

\* C9: a session that is back in the pool holds no lock, a finished invocation
\* owns no session, and when no invocation is between a granted lock and its
\* finally block the lock is free.
C9_LockReleasedOnEveryExit ==
  /\ \A s \in Sessions : sessOwner[s] = NoInvocation => sessLock[s] = 0
  /\ \A i \in Invocations :
       inv[i].pc \in {"idle", "connect", "done"} => \A s \in Sessions : sessOwner[s] # i
  /\ (\A i \in Invocations : inv[i].pc \notin {"fn", "call", "write", "delrow", "finally"})
       => \A s \in Sessions : sessLock[s] = 0

\* C9 witness: fn threw under the lock, the invocation has finished, and the
\* lock is free.
C9_Witness ==
  \E i \in Invocations :
    /\ inv[i].pc = "done" /\ inv[i].locked /\ inv[i].out = "threw"
    /\ \A s \in Sessions : sessLock[s] = 0 /\ sessOwner[s] # i

\* C10: an invocation that was refused the lock does not run fn, writes nothing
\* and calls nothing; its finally block changes neither the row nor the project
\* nor another session's lock, so an invocation inside fn keeps holding it.
C10_RefusedLockIsNoOp ==
  /\ [](\A i \in Invocations :
          /\ inv[i].pc \in {"fn", "call", "write", "delrow"}
               => (inv[i].locked /\ sessLock[inv[i].sess] > 0)
          /\ ~inv[i].locked => (~inv[i].ranFn /\ inv[i].writes = 0 /\ inv[i].calls = 0))
  /\ [][\A i \in Invocations :
          (inv[i].pc = "finally" /\ ~inv[i].locked /\ inv'[i].pc = "done")
          => (/\ pdb' = pdb /\ project' = project
              /\ \A s \in Sessions \ {inv[i].sess} : sessLock'[s] = sessLock[s])]_vars

\* C10 witness: an invocation was refused the lock and has returned while the
\* holder is still inside fn with its lock.
C10_Witness ==
  \E i, j \in Invocations :
    /\ inv[i].pc = "done" /\ inv[i].out = "not_acquired" /\ ~inv[i].ranFn
    /\ inv[j].pc \in {"fn", "call", "write", "delrow"} /\ sessLock[inv[j].sess] > 0

(***************************************************************************)
(* Properties of the provisioning state machine (SpecFsm).                 *)
(***************************************************************************)

\* C11: every operation that is about to insert, update or delete the
\* provisioned_databases row holds the account's advisory lock: a tick or a
\* deprovision at its write holds it in its session, and a provision request
\* at its DELETE or INSERT owns a session that holds it.
C11_EveryRowWriteHoldsLock ==
  /\ \A i \in Invocations :
       inv[i].pc \in {"write", "delrow"} => (inv[i].locked /\ sessLock[inv[i].sess] > 0)
  /\ \A p \in Provisions :
       prv[p].pc \in {"delete", "insert"}
         => \E s \in Sessions : sessOwner[s] = p /\ sessLock[s] > 0

\* C12: while it is the same row (from its insert to its deletion) the row's
\* install_step never moves backwards in the order create_project,
\* wait_database_ready, apply_schema, verify_connection, start_sync,
\* verify_sync, done; a row that is ready or error is never changed again (so
\* it enters error at most once), and no tick decides on a call or a write, or
\* makes an external call, while the row is ready or error.
C12_StepsForwardTerminalFinal ==
  /\ [][(pdb # NoPdb /\ pdb' # NoPdb /\ pdb'.project_ref = pdb.project_ref)
          => /\ StepRank(pdb'.install_step) >= StepRank(pdb.install_step)
             /\ StepRank(pdb'.install_step) >= 0
             /\ pdb.install_status \in {"ready", "error"} => pdb' = pdb]_vars
  /\ [][\A i \in Ticks :
          ((inv[i].pc = "fn" /\ inv'[i].pc \in {"call", "write"}) \/ inv'[i].calls > inv[i].calls)
            => pdb.install_status \notin {"ready", "error"}]_vars

\* C12 witness: a row failed in start_sync, and a later tick that took the lock
\* and read it has called nothing and written nothing.
C12_Witness ==
  \E i \in Ticks :
    /\ inv[i].pc = "finally" /\ inv[i].locked /\ inv[i].row = pdb
    /\ pdb.install_status = "error" /\ pdb.install_step = "start_sync"
    /\ inv[i].calls = 0 /\ inv[i].writes = 0

\* C13: whenever the account has a row, its install_status is ready exactly
\* when its install_step is done.
C13_ReadyIffDone ==
  pdb # NoPdb => ((pdb.install_status = "ready") <=> (pdb.install_step = "done"))

\* C13 witness: a row has been taken through every step to ready / done.
C13_Witness ==
  /\ pdb.install_status = "ready" /\ pdb.install_step = "done"
  /\ pdb.project_ref \in DOMAIN installed /\ installed[pdb.project_ref]

\* C14: whenever the account has a row, its error_message is set exactly when
\* its install_status is error.
C14_MessageIffError ==
  pdb # NoPdb => ((pdb.error_message # "null") <=> (pdb.install_status = "error"))

\* C14 witness: the row a provision retry inserted (the second project) had
\* its probe answered 401/403 and is in error with that message.
C14_Witness ==
  /\ pdb.install_status = "error" /\ pdb.error_message = "auth"
       /\ pdb.install_step = "wait_database_ready" /\ pdb.project_ref = 2

\* C15: a tick that read the row in provisioning / wait_database_ready writes
\* installing / apply_schema when its probe succeeded, and writes error only
\* after a probe of its own that failed.
C15_ErrorOnlyAfterFailedProbe ==
  \A i \in Ticks :
    (inv[i].pc = "write" /\ inv[i].row.install_step = "wait_database_ready"
       /\ inv[i].row.install_status = "provisioning")
      => /\ inv[i].plan.op = "progress"
              => (inv[i].plan = Progress("installing", "apply_schema") /\ inv[i].calls = 3)
         /\ inv[i].plan.op = "error" => inv[i].calls >= 1

C18_OneExternalCallPerTick ==
  \A i \in Ticks : inv[i].calls <= 1

(***************************************************************************)
(* Properties of the signed endpoints (SpecSig).                           *)
(***************************************************************************)

\* C19: an endpoint works on a tenant only if the request carried a
\* Stripe-Signature header that is valid for that tenant id: its v1 is the
\* HMAC, under a configured secret, of its timestamp and the canonical
\* payload of the request's user_id and that account id, and the timestamp
\* is within the tolerance.
C19_ActsOnlyOnSignedTenant ==
  \A r \in SigRequests :
    sreq[r].acted # NoTenant
      => LET q == sreq[r].req
             secrets == {trim(sreq[r].env[n]) : n \in DOMAIN sreq[r].env} \ {""}
         IN /\ q.header # NoHeader
            /\ \E k \in secrets :
                 q.header.v1 = Hmac(k, q.header.t, buildCanonicalPayload(q.user_id, sreq[r].acted))
            /\ sreq[r].at - q.header.t <= DEFAULT_TOLERANCE_SECONDS

C21_ExistingRowIsReported ==
  /\ [][\A p \in Provisions :
          (prv[p].pc = "idle" /\ prv'[p].pc # "idle" /\ pdb # NoPdb /\ pdb.install_status # "error")
            => /\ prv'[p].pc = "done" /\ prv'[p].out = 200
               /\ prv'[p].body.status = pdb.install_status
               /\ prv'[p].body.step = pdb.install_step
               /\ prv'[p].body.project_ref = pdb.project_ref
               /\ pdb' = pdb /\ project' = project /\ installed' = installed]_vars
  /\ [](\A p \in Provisions : prv[p].out = 200 => prv[p].ref = 0)

\* C21 witness: two provision requests for a row in syncing / start_sync were
\* both answered 200 with that row, and the row is as it was.
C21_Witness ==
  /\ pdb.install_status = "syncing" /\ pdb.install_step = "start_sync"
  /\ \A p \in Provisions :
       prv[p].pc = "done" /\ prv[p].out = 200 /\ prv[p].body = StatusBody(pdb)

\* C22: a deprovision that holds the lock calls the control plane first and
\* reaches its row delete only after a 2xx answer, with the project gone; a
\* refusal of the control plane (404 included) sends it to the catch block,
\* which answers 500, and the step changes neither the row nor the project;
\* no other step of the deprovision than the row delete changes the row.
C22_ProjectFirstRowOnlyAfter2xx ==
  /\ [](\A d \in Deprovisions :
          inv[d].pc = "delrow"
            => (inv[d].locked /\ inv[d].calls = 1 /\ inv[d].writes = 0
                /\ inv[d].row.project_ref \notin project))
  /\ [][\A d \in Deprovisions :
          /\ (inv[d].pc = "fn" /\ inv'[d].pc = "finally")
               => (/\ DeleteStatus(inv'[d].out) = 500
                   /\ pdb' = pdb /\ project' = project)
          /\ (inv[d].pc = "fn" /\ inv'[d].pc = "delrow")
               => (project' = project \ {inv[d].row.project_ref} /\ project' # project
                   /\ pdb' = pdb)
          /\ (inv[d].pc = "finally" /\ inv'[d].pc = "done" /\ inv[d].out = "threw")
               => (DeleteStatus(inv'[d].out) = 500 /\ pdb' = pdb)
          /\ (inv'[d] # inv[d] /\ pdb' # pdb) => inv[d].pc = "delrow"]_vars

\* C22 witness: the control plane refused the delete of a project it no longer
\* has (404); the deprovision has answered 500 and the row is still there.
C22_Witness ==
  \E d \in Deprovisions :
    /\ inv[d].pc = "done" /\ inv[d].out = "threw" /\ inv[d].ranFn
    /\ pdb # NoPdb /\ pdb.project_ref \notin project

\* C23: a deprovision that asks for the lock while a tick holds it is refused:
\* it goes to its finally block without the lock, having called nothing and
\* written nothing, and answers 409; none of its steps from the refusal to the
\* answer changes the row, the project, the tick or the tick's lock.
C23_DeleteUnderTickIs409 ==
  /\ [][\A d \in Deprovisions :
          (/\ inv[d].pc = "trylock" /\ inv'[d] # inv[d] /\ inv'[d].out # "threw"
           /\ \E s \in Sessions : sessLock[s] > 0 /\ sessOwner[s] \in Ticks)
          => (/\ inv'[d].pc = "finally" /\ ~inv'[d].locked /\ ~inv'[d].ranFn
              /\ inv'[d].calls = 0 /\ inv'[d].writes = 0)]_vars
  /\ [][\A d \in Deprovisions :
          (/\ inv'[d] # inv[d] /\ ~inv'[d].locked /\ inv'[d].out # "threw"
           /\ inv[d].pc \in {"trylock", "finally"})
          => (/\ pdb' = pdb /\ project' = project
              /\ \A t \in Ticks : inv'[t] = inv[t]
              /\ \A s \in Sessions : sessOwner[s] \in Ticks => sessLock'[s] = sessLock[s])]_vars
  /\ [](\A d \in Deprovisions :
          (inv[d].pc = "done" /\ ~inv[d].ranFn /\ inv[d].out \notin {"threw", "not_provisioned"})
            => DeleteStatus(inv[d].out) = 409)
  /\ [](\A d \in Deprovisions :
          inv[d].pc \in {"fn", "delrow"} => inv[d].locked)

\* C23 witness: the deprovision has answered 409 while the tick that held the
\* lock is still inside fn, the row and its project in place.
C23_Witness ==
  \E d \in Deprovisions, t \in Ticks :
    /\ inv[d].pc = "done" /\ DeleteStatus(inv[d].out) = 409
    /\ inv[t].pc \in {"call", "write"} /\ inv[t].locked /\ sessLock[inv[t].sess] > 0
    /\ pdb # NoPdb /\ pdb.project_ref \in project

\* C24: whenever the provisioned_databases row is removed, the project named
\* by its project_ref is already gone from the control plane.
C24_RowRemovedOnlyAfterProject ==
  [][(pdb # NoPdb /\ pdb' = NoPdb) => pdb.project_ref \notin project]_vars

\* C25: a status request whose tick (or whose second read) threw still answers
\* 200, and its body reports the row as the request read it before the tick;
\* a request answers 500 only when no tick threw.
C25_TickErrorStillAnswers200 ==
  /\ \A h \in StatusRequests :
       (statusReq[h].pc = "done" /\ statusReq[h].threw)
         => (statusReq[h].out = 200 /\ statusReq[h].body = StatusBody(statusReq[h].before))
  /\ \A h \in StatusRequests : statusReq[h].out = 500 => ~statusReq[h].threw
  /\ \A h \in StatusRequests : statusReq[h].threw => statusReq[h].db = statusReq[h].before

\* C25 witness: the tick of the request threw, a second poll has moved the row
\* on in the meantime, and the request has answered 200 with the row of its
\* first read.
C25_Witness ==
  \E h \in StatusRequests :
    /\ statusReq[h].pc = "done" /\ statusReq[h].threw /\ statusReq[h].out = 200
    /\ statusReq[h].body.status = "pending" /\ pdb.install_status = "provisioning"

(***************************************************************************)
(* Properties of the envelope crypto (SpecCrypto).                         *)
(***************************************************************************)

\* C26: whatever string one side encrypted, either side decrypts the
\* untouched payload to that same string.
C26_DecryptOfEncryptIsIdentity ==
  (cr.pc = "decrypted" /\ cr.tamper = "none")
    => (cr.res.ok /\ cr.res.val = cr.plain)

\* C27: every rejection by decrypt carries one and the same error, that of a
\* failed authentication.
C27_OneErrorForEveryRejection ==
  (cr.pc = "decrypted" /\ ~cr.res.ok)
    => cr.res.error = "Decryption failed: invalid ciphertext or authentication tag"

(***************************************************************************)
(* Properties of the token sweeper's request handler (SpecSweep).          *)
(***************************************************************************)

\* C28: a dry run never reaches the platform call or the update and leaves
\* every connection row as it is; in its summary every selected row is
\* reported, as skipped when its refresh token decrypts and as failed when
\* it does not.
C28_DryRunCallsAndWritesNothing ==
  /\ [](run.dryRun => (run.calls = 0 /\ run.writes = 0 /\ run.pc \notin {"call", "write"}))
  /\ [][run.dryRun => table' = table]_vars
  /\ []((run.dryRun /\ run.pc = "done" /\ run.res.summary)
          => /\ Len(run.results) = Len(run.selected)
             /\ \A i \in 1..Len(run.results) :
                  LET r == run.results[i]
                      readable == decrypt(table[r.id].refresh_token_enc).ok
                  IN /\ r.id = run.selected[i].id
                     /\ readable => (r.skipped /\ r.success)
                     /\ ~readable => (~r.skipped /\ ~r.success))

\* C28 witness: a dry run over both rows has answered; one row is reported
\* skipped, the other, whose refresh token does not decrypt, failed.
C28_Witness ==
  /\ run.dryRun /\ run.pc = "done" /\ run.res.status = 200
  /\ run.res.stats = Stats(2, 0, 1, 1)
  /\ \E i, j \in 1..Len(run.results) : run.results[i].skipped /\ ~run.results[j].success

\* C29: in every summary total is the number of rows selected and equals
\* refreshed + failed + skipped, every result falls into exactly one of the
\* three classes, and success is true exactly when failed is 0.
C29_SummaryAddsUp ==
  (run.pc = "done" /\ run.res.summary)
    => LET st == run.res.stats
           refreshed(r) == r.success /\ ~r.skipped
           failed(r) == ~r.success
           skipped(r) == r.skipped
       IN /\ run.res.status = 200
          /\ st.total = Len(run.selected)
          /\ st.total = st.refreshed + st.failed + st.skipped
          /\ \A i \in 1..Len(run.results) :
               LET r == run.results[i] IN
                 /\ refreshed(r) \/ failed(r) \/ skipped(r)
                 /\ ~(refreshed(r) /\ failed(r)) /\ ~(refreshed(r) /\ skipped(r))
                 /\ ~(failed(r) /\ skipped(r))
          /\ st.refreshed = Cardinality({i \in 1..Len(run.results) : refreshed(run.results[i])})
          /\ st.failed = Cardinality({i \in 1..Len(run.results) : failed(run.results[i])})
          /\ st.skipped = Cardinality({i \in 1..Len(run.results) : skipped(run.results[i])})
          /\ run.res.success <=> (st.failed = 0)

\* C29 witness: a summary of two rows, one refreshed and one failed, with
\* success false.
C29_Witness ==
  /\ run.pc = "done" /\ run.res.summary /\ ~run.dryRun
  /\ run.res.stats = Stats(2, 1, 1, 0) /\ ~run.res.success

(***************************************************************************)
(* Progress of the provisioning state machine under polling (SpecPoll).    *)
(***************************************************************************)

C31_TitleIsStripeDataSync ==
  /\ HomeRender(home).element = "ContextView"
  /\ HomeRender(home).title = "Stripe Data Sync"


(***************************************************************************)
(* Properties of racing provision requests (SpecRace).                     *)
(***************************************************************************)
\* C32: concurrent POST /provision requests that find no row create at most one
\* project, and every project startProvisioning creates is recorded in the
\* tenant's row: once no POST is in flight, every existing project is the one
\* the row names.
C32_EveryCreatedProjectIsRecorded ==
  (\A p \in Provisions : prv[p].pc \in {"idle", "done"})
    => \A r \in project : pdb # NoPdb /\ pdb.project_ref = r


(***************************************************************************)
(* Properties of aborted refreshers (SpecAbort).                           *)
(***************************************************************************)
\* C33: when a refresher was aborted at one of its suspension points, the
\* refresh token in the connection row is still the one the platform accepts.
C33_AbortKeepsAcceptedRefreshToken ==
  \A p \in Refreshers :
    (pc[p] = "failed" /\ cause[p] = "aborted")
      => LET r == decrypt(conn.refresh_token_enc)
         IN r.ok /\ r.val = RefreshTok(platRefresh)


(***************************************************************************)
(* Properties of DELETE /provision next to a retry (SpecRetry).            *)
(***************************************************************************)
\* C34: when DELETE /provision removes the tenant's row, the project it deleted
\* at the control plane is the one the row names at the moment of removal.
C34_DeletedProjectIsTheRowsProject ==
  [][\A i \in ApiDeprovisions :
       (inv[i].pc = "delrow" /\ inv'[i].pc = "finally" /\ pdb # NoPdb /\ pdb' = NoPdb)
         => inv[i].row.project_ref = pdb.project_ref]_vars


(***************************************************************************)
(* Properties of the state machine while the row is replaced (SpecReplace).*)
(***************************************************************************)
\* C35: a row is ready only after a readiness probe succeeded for it and the
\* sync installer then completed successfully for it.  Step by step: ready is
\* entered only from verify_sync, verify_sync only from start_sync by a tick
\* whose installer call succeeded, start_sync only from verify_connection,
\* verify_connection only from apply_schema, and apply_schema only from
\* wait_database_ready by a tick whose probe succeeded, all on the same row.
C35_ReadyOnlyThroughProbeAndInstaller ==
  [][LET sameRow == pdb # NoPdb /\ pdb' # NoPdb /\ pdb.project_ref = pdb'.project_ref
         from(s) == sameRow /\ pdb.install_step = s /\ pdb.install_status # "error"
         entered(s) == /\ pdb' # NoPdb
                       /\ pdb'.install_step = s
                       /\ ~(sameRow /\ pdb.install_step = s)
         wroteIt(i, plan) == /\ inv[i].pc = "write"
                             /\ inv'[i].pc = "finally"
                             /\ inv[i].plan = plan
                             /\ inv[i].row.project_ref = pdb.project_ref
     IN /\ (pdb' # NoPdb /\ pdb'.install_status = "ready"
              /\ ~(sameRow /\ pdb.install_status = "ready"))
            => from("verify_sync")
        /\ entered("verify_sync")
            => /\ from("start_sync")
               /\ \E i \in Ticks : /\ wroteIt(i, Progress("syncing", "verify_sync"))
                                   /\ inv[i].attempts >= 1
        /\ entered("start_sync") => from("verify_connection")
        /\ entered("verify_connection") => from("apply_schema")
        /\ entered("apply_schema")
            => /\ from("wait_database_ready")
               /\ \E i \in Ticks : /\ wroteIt(i, Progress("installing", "apply_schema"))
                                   /\ inv[i].calls >= 1]_vars



\* C36: a tick invocation writes the row at most once and advances it by at
\* most one step of the order, so a fresh row needs six writing ticks to reach
\* ready / done and passes every step in between; the step from verify_sync to
\* done is taken only when at least VERIFY_SYNC_DELAY_SECONDS have passed since
\* verify_sync was entered.
C36_OneStepPerTick ==
  [][/\ \A i \in Ticks : inv'[i].writes <= 1
     /\ (pdb # NoPdb /\ pdb' # NoPdb /\ pdb.project_ref = pdb'.project_ref)
          => /\ StepRank(pdb'.install_step) - StepRank(pdb.install_step) \in {0, 1}
             /\ (pdb.install_step = "verify_sync" /\ pdb'.install_step = "done")
                  => now - pdb.updated_at >= VERIFY_SYNC_DELAY_SECONDS
     /\ (pdb' # NoPdb /\ (pdb = NoPdb \/ pdb.project_ref # pdb'.project_ref))
          => StepRank(pdb'.install_step) = 0]_vars



(***************************************************************************)
(* Further properties of the token vault (SpecTok).                        *)
(***************************************************************************)
\* C37: getStripeClient returns the stored access token without contacting the
\* platform exactly when access_token_expires_at > now + 5 min; in every other
\* case, equality included, it goes on to refresh.
C37_StoredTokenOnlyAboveThreshold ==
  [][\A h \in Handlers :
       /\ (pc[h] = "idle" /\ pc'[h] = "done")
            => conn.access_token_expires_at > now + REFRESH_THRESHOLD_MINUTES * 60
       /\ (pc[h] = "idle" /\ pc'[h] = "loaded")
            => conn.access_token_expires_at <= now + REFRESH_THRESHOLD_MINUTES * 60]_vars


(***************************************************************************)
(* Properties of the sweeper's batches (SpecBatch).                        *)
(***************************************************************************)
\* C38: the sweeper never has more than CONCURRENCY_LIMIT refreshes in flight;
\* when it returns, every selected row was processed exactly once and has
\* exactly one result, whatever the other rows' results were: a failed row
\* neither ends the run nor keeps another row from being refreshed.
C38_BoundedAndEveryRowOnce ==
  /\ Cardinality(InFlight(batch)) <= CONCURRENCY_LIMIT
  /\ \A k \in 1..batch.n : batch.calls[k] <= 1
  /\ batch.pc = "returned"
       => /\ \A k \in 1..batch.n : batch.calls[k] = 1
          /\ Len(batch.results) = batch.n
          /\ \A k \in 1..batch.n :
               /\ batch.results[k].id = k
               /\ batch.results[k].success = (batch.row[k] = "refreshed")
          /\ \A k \in 1..batch.n : batch.row[k] \in {"refreshed", "failed"}

C38_Witness ==
  /\ batch.pc = "returned"
  /\ batch.n > CONCURRENCY_LIMIT
  /\ batch.row[1] = "failed"
  /\ \A k \in 2..batch.n : batch.row[k] = "refreshed"


(***************************************************************************)
(* Properties of the requests' livemode (SpecLive).                        *)
(***************************************************************************)
\* C39: the access token start_sync passes to the sync installer belongs to
\* the connection of the livemode of the POST /provision that created the row.
C39_InstallerTokenOfTheRowsMode ==
  live.given => live.token = live.row


(***************************************************************************)
(* Properties of the sweeper's schedule (SpecCron).                        *)
(***************************************************************************)
\* C40: with a sweep every 30 minutes, refreshes that succeed and tokens that
\* live 3600 s, from the first sweep on every stored access token has more
\* than 5 minutes of validity left at every instant.
C40_AlwaysMoreThanFiveMinutesLeft ==
  cron.swept
    => \A c \in CronConnections :
         table[c].access_token_expires_at > now + REFRESH_THRESHOLD_MINUTES * 60

====
